---- MODULE Spec2Model ----
(***************************************************************************)
(* Sidebar loader of the quality-audit dashboard (src/load-sidebar.js):    *)
(* the reversal workflow-state classifier, the notification counter cache, *)
(* the notification badges and the role-gated navigation entries.          *)
(*                                                                         *)
(* JavaScript strings are sequences of one-character strings, so that      *)
(* toLowerCase, trim, includes, toString and parseInt are computed on the  *)
(* characters. JavaScript values carry their type, so that === separates   *)
(* true, 'true', 1 and '1'.                                                *)
(***************************************************************************)
EXTENDS Integers, Sequences, FiniteSets

(***************************************************************************)
(* String literals of the source.                                          *)
(***************************************************************************)
s_team_lead_review ==
    <<"t", "e", "a", "m", "_", "l", "e", "a", "d", "_", "r", "e", "v", "i", "e", "w">>
s_team_lead_rejected ==
    <<"t", "e", "a", "m", "_", "l", "e", "a", "d", "_", "r", "e", "j", "e", "c", "t", "e", "d">>
s_qa_review ==
    <<"q", "a", "_", "r", "e", "v", "i", "e", "w">>
s_auditor_review ==
    <<"a", "u", "d", "i", "t", "o", "r", "_", "r", "e", "v", "i", "e", "w">>
s_cqc_review ==
    <<"c", "q", "c", "_", "r", "e", "v", "i", "e", "w">>
s_cqc_sent_back ==
    <<"c", "q", "c", "_", "s", "e", "n", "t", "_", "b", "a", "c", "k">>
s_agent_re_review ==
    <<"a", "g", "e", "n", "t", "_", "r", "e", "_", "r", "e", "v", "i", "e", "w">>
s_reversal_approved ==
    <<"r", "e", "v", "e", "r", "s", "a", "l", "_", "a", "p", "p", "r", "o", "v", "e", "d">>
s_reversal_rejected ==
    <<"r", "e", "v", "e", "r", "s", "a", "l", "_", "r", "e", "j", "e", "c", "t", "e", "d">>
s_acknowledged ==
    <<"a", "c", "k", "n", "o", "w", "l", "e", "d", "g", "e", "d">>
s_pending ==
    <<"p", "e", "n", "d", "i", "n", "g">>
s_submitted ==
    <<"s", "u", "b", "m", "i", "t", "t", "e", "d">>
s_team_lead_approved ==
    <<"t", "e", "a", "m", "_", "l", "e", "a", "d", "_", "a", "p", "p", "r", "o", "v", "e", "d">>
s_approved ==
    <<"a", "p", "p", "r", "o", "v", "e", "d">>
s_rejected ==
    <<"r", "e", "j", "e", "c", "t", "e", "d">>
s_pending_reversal_approved ==
    <<"p", "e", "n", "d", "i", "n", "g", " ", "-", " ", "r", "e", "v", "e", "r", "s", "a", "l", "_", "a", "p", "p", "r", "o", "v", "e", "d">>
s_pending_reversal_rejected ==
    <<"p", "e", "n", "d", "i", "n", "g", " ", "-", " ", "r", "e", "v", "e", "r", "s", "a", "l", "_", "r", "e", "j", "e", "c", "t", "e", "d">>
s_true ==
    <<"t", "r", "u", "e">>
s_false ==
    <<"f", "a", "l", "s", "e">>
s_1 ==
    <<"1">>
s_0 ==
    <<"0">>
s_anonymous ==
    <<"a", "n", "o", "n", "y", "m", "o", "u", "s">>
s_Employee ==
    <<"E", "m", "p", "l", "o", "y", "e", "e">>
s_Super_Admin ==
    <<"S", "u", "p", "e", "r", " ", "A", "d", "m", "i", "n">>
s_99plus ==
    <<"9", "9", "+">>

(***************************************************************************)
(* Input strings used to build the bounded sets of records.                *)
(***************************************************************************)
in_REVERSAL_APPROVED ==
    <<"R", "E", "V", "E", "R", "S", "A", "L", "_", "A", "P", "P", "R", "O", "V", "E", "D">>
in_Reversal_Approved ==
    <<"R", "e", "v", "e", "r", "s", "a", "l", "_", "A", "p", "p", "r", "o", "v", "e", "d">>
in_Pending ==
    <<"P", "e", "n", "d", "i", "n", "g">>
in_pending_dash ==
    <<"p", "e", "n", "d", "i", "n", "g", " ", "-">>
in_Acknowledged ==
    <<"A", "c", "k", "n", "o", "w", "l", "e", "d", "g", "e", "d">>
in_escalated ==
    <<"e", "s", "c", "a", "l", "a", "t", "e", "d">>
in_yes ==
    <<"y", "e", "s">>
in_Bob ==
    <<"B", "o", "b">>
in_Al ==
    <<" ", "A", "l", " ">>
in_blank ==
    <<" ", " ">>
in_a_x ==
    <<"a", "@", "x">>
in_A_X_padded ==
    <<" ", "A", "@", "X", " ">>
in_Quality_Analyst ==
    <<"Q", "u", "a", "l", "i", "t", "y", " ", "A", "n", "a", "l", "y", "s", "t">>
in_employee_lower ==
    <<"e", "m", "p", "l", "o", "y", "e", "e">>
in_Super_Admin_padded ==
    <<"S", "u", "p", "e", "r", " ", "A", "d", "m", "i", "n", " ">>

(***************************************************************************)
(* JavaScript values: a type tag t, the characters v of a string, the      *)
(* integer n of a number (1 and 0 for the booleans true and false).        *)
(***************************************************************************)
Undefined == [t |-> "undefined", v |-> <<>>, n |-> 0]

Null == [t |-> "null", v |-> <<>>, n |-> 0]

Bool(b) == [t |-> "boolean", v |-> <<>>, n |-> IF b THEN 1 ELSE 0]

Num(k) == [t |-> "number", v |-> <<>>, n |-> k]

NaN == [t |-> "NaN", v |-> <<>>, n |-> 0]

Str(s) == [t |-> "string", v |-> s, n |-> 0]

\* ToBoolean: what  if (x),  !x,  x && y  and  x || y  test.
Truthy(x) ==
    \/ x.t = "boolean" /\ x.n = 1
    \/ x.t = "number" /\ x.n # 0
    \/ x.t = "string" /\ x.v # <<>>

\* x || y
OrElse(x, y) == IF Truthy(x) THEN x ELSE y

UpperChars ==
    <<"A", "B", "C", "D", "E", "F", "G", "H", "I", "J", "K", "L", "M",
      "N", "O", "P", "Q", "R", "S", "T", "U", "V", "W", "X", "Y", "Z">>

LowerChars ==
    <<"a", "b", "c", "d", "e", "f", "g", "h", "i", "j", "k", "l", "m",
      "n", "o", "p", "q", "r", "s", "t", "u", "v", "w", "x", "y", "z">>

LowerChar(c) ==
    IF \E i \in 1..Len(UpperChars) : UpperChars[i] = c
    THEN LowerChars[CHOOSE i \in 1..Len(UpperChars) : UpperChars[i] = c]
    ELSE c

\* String.prototype.toLowerCase
ToLowerCase(s) == [i \in 1..Len(s) |-> LowerChar(s[i])]

IsSpace(c) == c \in {" ", "\t", "\n", "\r"}

RECURSIVE TrimStart(_)
TrimStart(s) ==
    IF s # <<>> /\ IsSpace(Head(s)) THEN TrimStart(Tail(s)) ELSE s

RECURSIVE TrimEnd(_)
TrimEnd(s) ==
    IF s # <<>> /\ IsSpace(s[Len(s)]) THEN TrimEnd(SubSeq(s, 1, Len(s) - 1)) ELSE s

\* String.prototype.trim
Trim(s) == TrimEnd(TrimStart(s))

\* String.prototype.includes
Includes(s, p) ==
    \E i \in 0..(Len(s) - Len(p)) : \A j \in 1..Len(p) : s[i + j] = p[j]

(***************************************************************************)
(* The workflow-state classifier. A reversal record maps each field the    *)
(* classifier reads to a JavaScript value; an absent field is Undefined.   *)
(***************************************************************************)

\* Faulty variant: the camelCase spelling is not read.
teamLeadApprovedMissesCamel(reversal) ==
    \/ reversal.team_lead_approved = Bool(TRUE)
    \/ reversal.team_lead_approved = Str(s_true)
    \/ reversal.team_lead_approved = Num(1)
    \/ reversal.team_lead_approved = Str(s_1)

\* const teamLeadApproved, the same expression in both functions
isTeamLeadApproved(reversal) ==
    \/ reversal.team_lead_approved = Bool(TRUE)
    \/ reversal.team_lead_approved = Str(s_true)
    \/ reversal.team_lead_approved = Num(1)
    \/ reversal.team_lead_approved = Str(s_1)
    \/ reversal.teamLeadApproved = Bool(TRUE)
    \/ reversal.teamLeadApproved = Str(s_true)
    \/ reversal.teamLeadApproved = Num(1)
    \/ reversal.teamLeadApproved = Str(s_1)

isTeamLeadRejected(reversal) ==
    \/ reversal.team_lead_approved = Bool(FALSE)
    \/ reversal.team_lead_approved = Str(s_false)
    \/ reversal.team_lead_approved = Num(0)
    \/ reversal.team_lead_approved = Str(s_0)
    \/ reversal.teamLeadApproved = Bool(FALSE)
    \/ reversal.teamLeadApproved = Str(s_false)
    \/ reversal.teamLeadApproved = Num(0)
    \/ reversal.teamLeadApproved = Str(s_0)

\* Faulty variant: the reviewer name is not trimmed.
NonBlankNoTrim(x) == Truthy(x)

\* (x && x.trim()) as a condition, x a string, null or undefined
NonBlank(x) == Truthy(x) /\ Truthy(Str(Trim(x.v)))

hasTeamLeadReviewed(reversal) ==
    \/ isTeamLeadApproved(reversal)
    \/ isTeamLeadRejected(reversal)
    \/ NonBlank(reversal.team_lead_reviewed_by)
    \/ NonBlank(reversal.teamLeadReviewedBy)

\* Faulty variant: the status is not lower-cased.
ackStatusOfNoLowerCase(reversal) ==
    OrElse(reversal.acknowledgement_status,
           OrElse(reversal.acknowledgementStatus, Str(<<>>))).v

\* const ackStatus, the same expression in both functions
ackStatusOf(reversal) ==
    ToLowerCase(OrElse(reversal.acknowledgement_status,
                       OrElse(reversal.acknowledgementStatus, Str(<<>>))).v)

\* Faulty variant: the rejection override returns a mistyped label.
explicitStateTypo(reversal) ==
    LET dbWorkflowState == reversal.reversal_workflow_state
    IN  IF /\ dbWorkflowState \in {Str(s_qa_review), Str(s_cqc_review)}
           /\ ~hasTeamLeadReviewed(reversal)
        THEN Str(s_team_lead_review)
        ELSE IF isTeamLeadRejected(reversal)
             THEN Str(s_team_lead_approved)
             ELSE dbWorkflowState

\* Faulty variant: the override is applied to cqc_review only.
explicitStateOnlyCqc(reversal) ==
    LET dbWorkflowState == reversal.reversal_workflow_state
    IN  IF /\ dbWorkflowState = Str(s_cqc_review)
           /\ ~hasTeamLeadReviewed(reversal)
        THEN Str(s_team_lead_review)
        ELSE IF isTeamLeadRejected(reversal)
             THEN Str(s_team_lead_rejected)
             ELSE dbWorkflowState

\* the branch taken when reversal_workflow_state is set
explicitState(reversal) ==
    LET dbWorkflowState == reversal.reversal_workflow_state
    IN  IF /\ dbWorkflowState \in {Str(s_qa_review), Str(s_cqc_review)}
           /\ ~hasTeamLeadReviewed(reversal)
        THEN Str(s_team_lead_review)
        ELSE IF isTeamLeadRejected(reversal)
             THEN Str(s_team_lead_rejected)
             ELSE dbWorkflowState

\* Faulty variant: reversal_approved is tested for truthiness.
approvedFallbackTruthy(approved) ==
    IF approved = Null \/ approved = Undefined THEN Str(s_pending)
    ELSE IF Truthy(approved) THEN Str(s_approved) ELSE Str(s_rejected)

\* the decision from reversal_approved when no keyword matched
approvedFallback(approved) ==
    IF approved = Null \/ approved = Undefined THEN Str(s_pending)
    ELSE IF approved \in {Bool(TRUE), Str(s_true), Num(1), Str(s_1)}
         THEN Str(s_approved)
         ELSE IF approved \in {Bool(FALSE), Str(s_false), Num(0), Str(s_0)}
              THEN Str(s_rejected)
              ELSE Str(s_pending)

\* the branch taken when reversal_workflow_state is not set
legacyState(reversal) ==
    LET ackStatus == ackStatusOf(reversal)
    IN  IF Includes(ackStatus, s_team_lead_review) THEN Str(s_team_lead_review)
        ELSE IF Includes(ackStatus, s_team_lead_rejected) THEN Str(s_team_lead_rejected)
        ELSE IF Includes(ackStatus, s_qa_review) \/ Includes(ackStatus, s_auditor_review)
             THEN Str(s_qa_review)
        ELSE IF Includes(ackStatus, s_cqc_review) THEN Str(s_cqc_review)
        ELSE IF Includes(ackStatus, s_cqc_sent_back) THEN Str(s_cqc_sent_back)
        ELSE IF Includes(ackStatus, s_agent_re_review) THEN Str(s_agent_re_review)
        ELSE IF Includes(ackStatus, s_reversal_approved) THEN Str(s_approved)
        ELSE IF Includes(ackStatus, s_reversal_rejected) THEN Str(s_rejected)
        ELSE IF ackStatus = s_acknowledged \/ Includes(ackStatus, s_acknowledged)
             THEN Str(s_acknowledged)
        ELSE approvedFallback(reversal.reversal_approved)

getReversalWorkflowState(reversal) ==
    IF Truthy(reversal.reversal_workflow_state)
    THEN explicitState(reversal)
    ELSE legacyState(reversal)

\* Faulty variant: the state submitted is missing from the list.
pendingStatesWithoutSubmitted ==
    {Str(s_pending), Str(s_team_lead_review), Str(s_team_lead_approved),
     Str(s_qa_review), Str(s_cqc_review), Str(s_cqc_sent_back), Str(s_agent_re_review)}

\* Faulty variant: the two review states are missing from the list.
pendingStatesWithoutReviews ==
    {Str(s_pending), Str(s_submitted), Str(s_team_lead_review), Str(s_team_lead_approved),
     Str(s_cqc_sent_back), Str(s_agent_re_review)}

pendingStates ==
    {Str(s_pending), Str(s_submitted), Str(s_team_lead_review), Str(s_team_lead_approved),
     Str(s_qa_review), Str(s_cqc_review), Str(s_cqc_sent_back), Str(s_agent_re_review)}

isPendingWorkflowState(reversal) ==
    LET workflowState == getReversalWorkflowState(reversal)
        finalDecision == reversal.reversal_approved
        hasFinalDecision == finalDecision # Null /\ finalDecision # Undefined
        ackStatus == ackStatusOf(reversal)
    IN  \/ workflowState \in pendingStates
        \/ isTeamLeadApproved(reversal) /\ ~hasFinalDecision
        \/ Includes(ackStatus, s_pending_reversal_approved)
        \/ Includes(ackStatus, s_pending_reversal_rejected)
        \/ workflowState = Str(s_qa_review)
        \/ workflowState = Str(s_cqc_review)

(***************************************************************************)
(* The count of updatePendingReversalsCount for a user who is no Employee. *)
(* b holds what the backend answers: the rows of reversal_requests in the  *)
(* order returned, each with the state of its current row of               *)
(* reversal_workflow_states (the empty string when it has no such row),    *)
(* whether the query of the states and the queries of the audits answer    *)
(* with an error, and the audit rows of each scorecard table: "absent",    *)
(* "plain", or "requested" for a row whose reversal_requested_at is set    *)
(* and whose reversal_approved is null.  A counted reversal is named by    *)
(* the id of its audit, its _scorecard_table and the position of the       *)
(* request it was merged with, 0 for a row found in STEP 2.                *)
(***************************************************************************)
finalStates == {s_approved, s_rejected, s_acknowledged}

\* workflowStateMap.get(reversalReq.id) || 'submitted'
workflowStateOf(b, request) ==
    IF b.statesFail \/ request.current = <<>> THEN s_submitted ELSE request.current

\* the requests the first loop keeps, by their position
keptRequests(b) ==
    {i \in DOMAIN b.requests : workflowStateOf(b, b.requests[i]) \notin finalStates}

\* reversalReqMap: the last kept request of each audit id
reversalReqMap(b) ==
    [a \in {b.requests[i].audit_id : i \in keptRequests(b)} |->
        LET of == {i \in keptRequests(b) : b.requests[i].audit_id = a}
        IN  CHOOSE i \in of : \A j \in of : j <= i]

\* reversalsByTable: the audit ids pushed for a table
reversalsByTable(b, table) ==
    {b.requests[i].audit_id : i \in {k \in keptRequests(b) : b.requests[k].table = table}}

\* the tables that answered with a row of the audit id
fetchedFrom(b, a) ==
    {table \in DOMAIN b.audits :
        /\ ~b.auditsFail
        /\ a \in reversalsByTable(b, table)
        /\ b.audits[table][a] # "absent"}

\* the fields isPendingWorkflowState reads of a merged reversal
mergedReversal(b, request) ==
    [reversal_workflow_state |-> Str(workflowStateOf(b, request)),
     team_lead_approved |-> Undefined, teamLeadApproved |-> Undefined,
     team_lead_reviewed_by |-> Undefined, teamLeadReviewedBy |-> Undefined,
     acknowledgement_status |-> Undefined, acknowledgementStatus |-> Undefined,
     reversal_approved |-> IF request.current = s_approved THEN Bool(TRUE)
                           ELSE IF request.current = s_rejected THEN Bool(FALSE)
                           ELSE Null]

\* STEP 1: the merged reversals pushed to combinedReversals, one for each
\* audit id of reversalReqMap that auditDataMap holds
mergedReversals(b) ==
    {[id |-> a,
      table |-> b.requests[reversalReqMap(b)[a]].table,
      request |-> reversalReqMap(b)[a],
      row |-> mergedReversal(b, b.requests[reversalReqMap(b)[a]])] :
     a \in {x \in DOMAIN reversalReqMap(b) : fetchedFrom(b, x) # {}}}

\* the fields isPendingWorkflowState reads of a row found by its column
\* reversal_requested_at, reversal_approved being null
legacyReversal ==
    [reversal_workflow_state |-> Undefined,
     team_lead_approved |-> Undefined, teamLeadApproved |-> Undefined,
     team_lead_reviewed_by |-> Undefined, teamLeadReviewedBy |-> Undefined,
     acknowledgement_status |-> Undefined, acknowledgementStatus |-> Undefined,
     reversal_approved |-> Null]

\* STEP 2: the rows of the tables that gave no merged reversal, without the
\* audit ids of existingAuditIds
legacyReversals(b, merged) ==
    UNION {{[id |-> a, table |-> table, request |-> 0, row |-> legacyReversal] :
            a \in {x \in DOMAIN b.audits[table] :
                      /\ b.audits[table][x] = "requested"
                      /\ x \notin {m.id : m \in merged}}} :
           table \in {t \in DOMAIN b.audits : t \notin {m.table : m \in merged}}}

\* pendingReversals: the reversals that are counted
pendingReversals(b) ==
    LET merged == mergedReversals(b)
    IN  {entry \in merged \cup legacyReversals(b, merged) : isPendingWorkflowState(entry.row)}

(***************************************************************************)
(* The notification counter cache. localStorage maps keys to strings; the  *)
(* item userInfo is kept apart from the cache items as what JSON.parse     *)
(* makes of it.                                                            *)
(***************************************************************************)
CACHE_DURATION_MS == 300000

DigitChars == <<"0", "1", "2", "3", "4", "5", "6", "7", "8", "9">>

IsDigit(c) == \E d \in 1..Len(DigitChars) : DigitChars[d] = c

DigitValue(c) == (CHOOSE d \in 1..Len(DigitChars) : DigitChars[d] = c) - 1

\* Number.prototype.toString of an integer
RECURSIVE toString(_)
toString(k) ==
    IF k < 0 THEN <<"-">> \o toString(0 - k)
    ELSE IF k < 10 THEN <<DigitChars[k + 1]>>
    ELSE toString(k \div 10) \o <<DigitChars[(k % 10) + 1]>>

RECURSIVE LeadingDigits(_)
LeadingDigits(s) ==
    IF s # <<>> /\ IsDigit(Head(s)) THEN <<Head(s)>> \o LeadingDigits(Tail(s)) ELSE <<>>

RECURSIVE DigitsValue(_)
DigitsValue(ds) ==
    IF ds = <<>> THEN 0
    ELSE 10 * DigitsValue(SubSeq(ds, 1, Len(ds) - 1)) + DigitValue(ds[Len(ds)])

\* parseInt(s, 10): leading white space, a sign, then the leading digits
ParseInt(s) ==
    LET body == TrimStart(s)
        negative == body # <<>> /\ Head(body) = "-"
        unsigned == IF body # <<>> /\ Head(body) \in {"-", "+"} THEN Tail(body) ELSE body
        digits == LeadingDigits(unsigned)
    IN  IF digits = <<>> THEN NaN
        ELSE Num(IF negative THEN 0 - DigitsValue(digits) ELSE DigitsValue(digits))

\* the characters of a JavaScript string as one TLA+ string, to name a key
RECURSIVE Join(_)
Join(s) == IF s = <<>> THEN "" ELSE Head(s) \o Join(Tail(s))

\* what JSON.parse makes of the stored item userInfo
NoUserItem == [kind |-> "missing", email |-> Undefined, role |-> Undefined]

UnparsableUserItem == [kind |-> "unparsable", email |-> Undefined, role |-> Undefined]

JsonNullUserItem == [kind |-> "null", email |-> Undefined, role |-> Undefined]

UserObject(email, role) == [kind |-> "object", email |-> email, role |-> role]

\* getUserInfo returns the parsed object, or null
getUserInfo(item) == IF item.kind = "object" THEN item ELSE JsonNullUserItem

HasUserInfo(item) == getUserInfo(item).kind = "object"

\* const userEmail of the two key functions
userEmailOf(item) ==
    IF HasUserInfo(item)
    THEN Trim(ToLowerCase(OrElse(getUserInfo(item).email, Str(s_anonymous)).v))
    ELSE s_anonymous

getNotificationCacheKey(type, item) ==
    "notification_count_" \o type \o "_" \o Join(userEmailOf(item))

getNotificationCacheTimestampKey(type, item) ==
    "notification_count_" \o type \o "_timestamp_" \o Join(userEmailOf(item))

\* localStorage.getItem, setItem and removeItem on the cache items
getItem(store, key) == IF key \in DOMAIN store THEN Str(store[key]) ELSE Null

setItem(store, key, value) ==
    [k \in DOMAIN store \cup {key} |-> IF k = key THEN value ELSE store[k]]

removeItem(store, key) == [k \in DOMAIN store \ {key} |-> store[k]]

\* Faulty variant: an entry expires when its age reaches the window.
cacheExpiredAtWindow(timestamp, time) ==
    timestamp.t = "number" /\ time - timestamp.n >= CACHE_DURATION_MS

\* now - timestamp > this.CACHE_DURATION_MS, false for NaN
cacheExpired(timestamp, time) ==
    timestamp.t = "number" /\ time - timestamp.n > CACHE_DURATION_MS

\* getCachedNotificationCount: the value returned and the storage it leaves
getCachedNotificationCount(store, item, time, type) ==
    LET cacheKey == getNotificationCacheKey(type, item)
        timestampKey == getNotificationCacheTimestampKey(type, item)
        cachedData == getItem(store, cacheKey)
        cachedTimestamp == getItem(store, timestampKey)
    IN  IF ~Truthy(cachedData) \/ ~Truthy(cachedTimestamp)
        THEN [ret |-> Null, store |-> store]
        ELSE IF cacheExpired(ParseInt(cachedTimestamp.v), time)
             THEN [ret |-> Null,
                   store |-> removeItem(removeItem(store, cacheKey), timestampKey)]
             ELSE [ret |-> ParseInt(cachedData.v), store |-> store]

\* setCachedNotificationCount: the storage it leaves
setCachedNotificationCount(store, item, time, type, count) ==
    setItem(setItem(store, getNotificationCacheKey(type, item), toString(count)),
            getNotificationCacheTimestampKey(type, item), toString(time))

\* setCachedNotificationCount when the storage has room for `room` more calls
\* of localStorage.setItem: the next call throws and the catch ends the
\* function
setCachedNotificationCountWithRoom(store, item, time, type, count, room) ==
    IF room = 0 THEN store
    ELSE IF room = 1
         THEN setItem(store, getNotificationCacheKey(type, item), toString(count))
         ELSE setCachedNotificationCount(store, item, time, type, count)

\* The try block of window.refreshAllNotificationCounts.  JSON.parse throws
\* on an item that is no JSON text, and the property access throws on the
\* value null; '{}' stands for a missing item.
clearThrows(item) == item.kind \in {"unparsable", "null"}

clearedEmailOf(item) ==
    IF item.kind = "object"
    THEN Trim(ToLowerCase(OrElse(item.email, Str(s_anonymous)).v))
    ELSE s_anonymous

clearedKeys(item) ==
    UNION {{"notification_count_" \o type \o "_" \o Join(clearedEmailOf(item)),
            "notification_count_" \o type \o "_timestamp_" \o Join(clearedEmailOf(item))} :
           type \in {"reversals", "employeeReversals", "acknowledgments"}}

clearNotificationCache(store, item) ==
    IF clearThrows(item) THEN store
    ELSE [k \in DOMAIN store \ clearedKeys(item) |-> store[k]]

(***************************************************************************)
(* The sidebar in the page. The document holds the sidebar navs inserted   *)
(* so far, first in document order first; getElementById and querySelector *)
(* find an element of the first one. A nav records the inline display of   *)
(* its li entries ("" when none is set) and its three badges. sidebar.html *)
(* is taken to hold the entries of the embedded markup.                    *)
(***************************************************************************)
MenuEntries ==
    {"Search", "Home", "Auditor's Dashboard", "Audit Distribution", "Create New Audit",
     "Audit Reports", "Performance", "Coaching & Remediation", "Reversal Management",
     "Event Management", "Improvement Corner", "calibration.html", "ata.html",
     "grading-guide.html", "Settings", "scorecards.html", "user-management.html",
     "accessControlMenuItem", "profile.html", "Help", "help.html", "bug-report.html",
     "bug-reports-view.html"}

BadgeIds ==
    {"reversalNotificationBadge", "employeeReversalNotificationBadge",
     "acknowledgmentNotificationBadge"}

\* nav.sidebar of the embedded copy; the served sidebar.html is taken to hold
\* the same entries and badges
SidebarNav ==
    [menu |-> [e \in MenuEntries |-> IF e = "accessControlMenuItem" THEN "none" ELSE ""],
     badges |-> [b \in BadgeIds |-> [display |-> "none", textContent |-> <<"0">>]]]

\* Faulty variant: the counts up to 100 are shown in full.
showBadgeCountOffByOne(badge, count) ==
    IF count.t = "number" /\ count.n > 0
    THEN [display |-> "inline-flex",
          textContent |-> IF count.n > 100 THEN s_99plus ELSE toString(count.n)]
    ELSE [badge EXCEPT !.display = "none"]

\* the if (count > 0) statement of the three badge setters
showBadgeCount(badge, count) ==
    IF count.t = "number" /\ count.n > 0
    THEN [display |-> "inline-flex",
          textContent |-> IF count.n > 99 THEN s_99plus ELSE toString(count.n)]
    ELSE [badge EXCEPT !.display = "none"]

withBadge(doc, id, badge) == [doc EXCEPT ![1].badges[id] = badge]

setReversalBadgeCount(doc, count) ==
    IF doc = <<>> THEN doc
    ELSE withBadge(doc, "reversalNotificationBadge",
                   showBadgeCount(doc[1].badges["reversalNotificationBadge"], count))

setEmployeeReversalBadgeCount(doc, item, count) ==
    LET id == "employeeReversalNotificationBadge"
    IN  IF doc = <<>> THEN doc
        ELSE IF HasUserInfo(item) /\ getUserInfo(item).role # Str(s_Employee)
             THEN withBadge(doc, id, [doc[1].badges[id] EXCEPT !.display = "none"])
             ELSE withBadge(doc, id, showBadgeCount(doc[1].badges[id], count))

setAcknowledgmentBadgeCount(doc, count) ==
    IF doc = <<>> THEN doc
    ELSE withBadge(doc, "acknowledgmentNotificationBadge",
                   showBadgeCount(doc[1].badges["acknowledgmentNotificationBadge"], count))

\* parentLi.style.display = 'none' on the li of the first element a selector finds
hideEntry(doc, entry) ==
    IF doc # <<>> /\ entry \in DOMAIN doc[1].menu
    THEN [doc EXCEPT ![1].menu[entry] = "none"]
    ELSE doc

\* Faulty variant: the role is compared after trimming, whatever its case.
updateAccessControlMenuItemLooseRole(doc, item) ==
    IF doc = <<>> THEN doc
    ELSE [doc EXCEPT ![1].menu["accessControlMenuItem"] =
              IF /\ HasUserInfo(item)
                 /\ getUserInfo(item).role.t = "string"
                 /\ Trim(ToLowerCase(getUserInfo(item).role.v)) = ToLowerCase(s_Super_Admin)
              THEN "block" ELSE "none"]

updateAccessControlMenuItem(doc, item) ==
    IF doc = <<>> THEN doc
    ELSE [doc EXCEPT ![1].menu["accessControlMenuItem"] =
              IF HasUserInfo(item) /\ getUserInfo(item).role = Str(s_Super_Admin)
              THEN "block" ELSE "none"]

\* Faulty variant: the Settings entry is hidden with its whole submenu.
hideEmployeeMenuItemsWholeSettings(doc, item) ==
    IF ~HasUserInfo(item) THEN doc
    ELSE IF OrElse(getUserInfo(item).role, Str(<<>>)) # Str(s_Employee) THEN doc
    ELSE updateAccessControlMenuItem(
             hideEntry(hideEntry(hideEntry(hideEntry(hideEntry(hideEntry(doc,
                 IF "Auditor's Dashboard" \in MenuEntries
                 THEN "Auditor's Dashboard" ELSE "Auditors' Dashboard"),
                 "Create New Audit"), "Audit Distribution"), "Improvement Corner"),
                 "Search"), "Settings"),
             item)

\* the two early returns leave the function; only an Employee reaches the
\* trailing updateAccessControlMenuItem call
hideEmployeeMenuItems(doc, item) ==
    IF ~HasUserInfo(item) THEN doc
    ELSE IF OrElse(getUserInfo(item).role, Str(<<>>)) # Str(s_Employee) THEN doc
    ELSE updateAccessControlMenuItem(
             hideEntry(hideEntry(hideEntry(hideEntry(hideEntry(hideEntry(hideEntry(doc,
                 IF "Auditor's Dashboard" \in MenuEntries
                 THEN "Auditor's Dashboard" ELSE "Auditors' Dashboard"),
                 "Create New Audit"), "Audit Distribution"), "Improvement Corner"),
                 "Search"), "scorecards.html"), "user-management.html"),
             item)

\* loadNotificationCountsFromCache: the document and the storage it leaves
loadNotificationCountsFromCache(doc, store, item, time) ==
    LET r1 == getCachedNotificationCount(store, item, time, "reversals")
        d1 == IF r1.ret # Null THEN setReversalBadgeCount(doc, r1.ret) ELSE doc
        r2 == getCachedNotificationCount(r1.store, item, time, "employeeReversals")
        d2 == IF r2.ret # Null THEN setEmployeeReversalBadgeCount(d1, item, r2.ret) ELSE d1
        r3 == getCachedNotificationCount(r2.store, item, time, "acknowledgments")
        d3 == IF r3.ret # Null THEN setAcknowledgmentBadgeCount(d2, r3.ret) ELSE d2
    IN  [doc |-> d3, store |-> r3.store]

\* updatePendingReversalsCount up to its first await: an Employee's reversal
\* badge is set to 0 and the function returns
updatePendingReversalsCountStart(doc, item) ==
    IF HasUserInfo(item) /\ getUserInfo(item).role = Str(s_Employee)
    THEN setReversalBadgeCount(doc, Num(0))
    ELSE doc

(***************************************************************************)
(* The three recomputations.  A call runs up to its first await; the rest  *)
(* of the run resumes when the backend answers.  u holds the navs, the     *)
(* runs awaiting an answer and the pending setTimeout retries.             *)
(***************************************************************************)
\* what the backend has answered to a run: the rows it returned, whether a
\* query failed, and how queries failed for a column the table does not have
NoAnswers == [rows |-> 0, failed |-> FALSE, silent |-> FALSE, skipped |-> {}]

\* Whether the failure of a query inside the loops is passed without a
\* message.  An exception is logged by console.warn unless it names a
\* missing column.  An error the query returns is logged by the loop of
\* the acknowledgments unless it names a missing column; the reversals
\* ignore the error of reversal_requests and of the first query of a
\* table, and the employee counts ignore the error of a count.
passedSilently(type, answer) ==
    \/ answer.kind \in {"schema error", "schema thrown"}
    \/ answer.kind = "error" /\ type \in {"reversals", "employeeReversals"}

Answered(type, answers, answer) ==
    [rows |-> IF answer.kind = "rows" THEN answers.rows + answer.n ELSE answers.rows,
     failed |-> answers.failed \/ answer.kind \in {"error", "thrown"},
     silent |-> answers.silent \/ passedSilently(type, answer),
     skipped |-> IF answer.kind \in {"schema error", "schema thrown"}
                 THEN answers.skipped \cup {answer.kind} ELSE answers.skipped]

\* a run awaiting the answer to its scorecards query
NewRun(type) ==
    [type |-> type, pc |-> "scorecards", tables |-> 0, total |-> 0, answers |-> NoAnswers]

\* setTimeout(() => this.update...(), 1000)
retryNeverArmed(timers, type) == timers

setTimeoutRetry(timers, type) == [timers EXCEPT ![type] = @ + 1]

updatePendingReversalsCount(u, item, client) ==
    IF HasUserInfo(item) /\ getUserInfo(item).role = Str(s_Employee)
    THEN [u EXCEPT !.doc = updatePendingReversalsCountStart(u.doc, item)]
    ELSE IF ~client
         THEN [u EXCEPT !.timers = setTimeoutRetry(u.timers, "reversals")]
         ELSE [u EXCEPT !.runs = Append(u.runs, NewRun("reversals"))]

\* the stored records hold no name: employeeName is ''
updateEmployeeReversalUpdatesCount(u, item, client) ==
    IF ~HasUserInfo(item) \/ getUserInfo(item).role # Str(s_Employee)
    THEN u
    ELSE IF ~client
         THEN [u EXCEPT !.timers = setTimeoutRetry(u.timers, "employeeReversals")]
         ELSE IF ~Truthy(getUserInfo(item).email)
              THEN u
              ELSE [u EXCEPT !.runs = Append(u.runs, NewRun("employeeReversals"))]

updatePendingAcknowledgmentsCount(u, item, client) ==
    IF ~client
    THEN [u EXCEPT !.timers = setTimeoutRetry(u.timers, "acknowledgments")]
    ELSE [u EXCEPT !.runs = Append(u.runs, NewRun("acknowledgments"))]

\* the update function of a category
updateCount(type, u, item, client) ==
    CASE type = "reversals" -> updatePendingReversalsCount(u, item, client)
      [] type = "employeeReversals" -> updateEmployeeReversalUpdatesCount(u, item, client)
      [] type = "acknowledgments" -> updatePendingAcknowledgmentsCount(u, item, client)

\* the three calls at the end of loadSidebar, in their order
updateAllCounts(u, item, client) ==
    updatePendingAcknowledgmentsCount(
        updateEmployeeReversalUpdatesCount(
            updatePendingReversalsCount(u, item, client), item, client), item, client)

\* the callback setupNotificationUpdateIntervals gives each interval handle
intervalCallbackAllReversals(handle) == "reversals"

intervalCallback(handle) == handle

\* the badge setter of a category
setBadgeCount(type, doc, item, count) ==
    CASE type = "reversals" -> setReversalBadgeCount(doc, count)
      [] type = "employeeReversals" -> setEmployeeReversalBadgeCount(doc, item, count)
      [] type = "acknowledgments" -> setAcknowledgmentBadgeCount(doc, count)

RemoveAt(s, i) == [j \in 1..(Len(s) - 1) |-> IF j < i THEN s[j] ELSE s[j + 1]]

\* a run ends: s holds the navs, the cache and the runs
ended(s, i, outcome, count, ret) ==
    [s EXCEPT !.runs = RemoveAt(s.runs, i), !.outcome = outcome, !.count = count,
              !.ret = ret, !.answers = s.runs[i].answers]

\* the catch block of an update function: the cached count, or 0
catchShowsZero(s, i, item, time) ==
    LET type == s.runs[i].type
        read == getCachedNotificationCount(s.store, item, time, type)
    IN  ended([s EXCEPT !.store = read.store,
                        !.doc = setBadgeCount(type, s.doc, item, Num(0))],
              i, "thrown", Undefined, read.ret)

\* Faulty variant: the read of the cache has no try block of its own.
readCacheUnguarded(s, item, time, type) ==
    IF s.denied
    THEN [ret |-> Null, store |-> s.store, logs |-> {}, thrown |-> TRUE]
    ELSE LET read == getCachedNotificationCount(s.store, item, time, type)
         IN  [ret |-> read.ret, store |-> read.store, logs |-> {}, thrown |-> FALSE]

\* getCachedNotificationCount as the catch block calls it: when the
\* storage throws, its own catch logs the error and returns null
readCache(s, item, time, type) ==
    IF s.denied
    THEN [ret |-> Null, store |-> s.store, logs |-> {"cache read error"}, thrown |-> FALSE]
    ELSE LET read == getCachedNotificationCount(s.store, item, time, type)
         IN  [ret |-> read.ret, store |-> read.store, logs |-> {}, thrown |-> FALSE]

\* what getUserInfo returns to a badge setter: null when the storage throws
userOfBadge(s, item) == IF s.denied THEN NoUserItem ELSE item

\* the catch block logs the error and shows the cached count, or 0; an
\* exception thrown inside the catch block rejects the promise
catchBlock(s, i, item, time) ==
    LET type == s.runs[i].type
        read == readCache(s, item, time, type)
        shown == IF read.ret # Null THEN read.ret ELSE Num(0)
    IN  IF read.thrown
        THEN ended([s EXCEPT !.logs = @ \cup {"console.error"}],
                   i, "uncaught", Undefined, Undefined)
        ELSE ended([s EXCEPT !.store = read.store,
                             !.doc = setBadgeCount(type, s.doc, userOfBadge(s, item), shown),
                             !.logs = @ \cup {"console.error"} \cup read.logs],
                   i, "thrown", Undefined, read.ret)

\* the last two statements of the try block: the cache and the badge take the total
finishAbortsAfterFailure(s, i, item, time) ==
    LET run == s.runs[i]
    IN  IF run.answers.failed \/ run.answers.skipped # {}
        THEN catchBlock(s, i, item, time)
        ELSE ended([s EXCEPT !.store = setCachedNotificationCount(s.store, item, time,
                                                                  run.type, run.total),
                             !.doc = setBadgeCount(run.type, s.doc, item, Num(run.total))],
                   i, "finished", Num(run.total), Undefined)

\* setCachedNotificationCount logs the exception of a storage that throws
finish(s, i, item, time) ==
    LET run == s.runs[i]
    IN  ended([s EXCEPT !.store = IF s.denied THEN s.store
                                  ELSE setCachedNotificationCount(s.store, item, time,
                                                                  run.type, run.total),
                         !.doc = setBadgeCount(run.type, s.doc, userOfBadge(s, item),
                                               Num(run.total)),
                         !.logs = IF s.denied THEN @ \cup {"cache write error"} ELSE @],
               i, "finished", Num(run.total), Undefined)

awaiting(s) == [s EXCEPT !.outcome = "awaiting"]

\* the scorecards query answers: an error, an exception, or the table names
scorecardsErrorClearsCache(s, i, item) ==
    LET type == s.runs[i].type
    IN  ended([s EXCEPT !.store = removeItem(removeItem(s.store,
                                      getNotificationCacheKey(type, item)),
                                      getNotificationCacheTimestampKey(type, item))],
              i, "scorecards error", Undefined, Undefined)

scorecardsError(s, i, item) ==
    ended([s EXCEPT !.logs = @ \cup {"console.warn"}], i, "scorecards error", Undefined,
          Undefined)

afterScorecards(s, i, item, time, answer) ==
    LET type == s.runs[i].type
    IN  CASE answer.kind = "error" -> scorecardsError(s, i, item)
          [] answer.kind = "thrown" -> catchBlock(s, i, item, time)
          [] answer.kind = "rows" /\ type = "reversals" ->
                 awaiting([s EXCEPT !.runs[i].pc = "requests", !.runs[i].tables = answer.n])
          [] answer.kind = "rows" /\ type # "reversals" /\ answer.n = 0 ->
                 ended([s EXCEPT !.doc = setBadgeCount(type, s.doc, item, Num(0))],
                       i, "no scorecards", Undefined, Undefined)
          [] OTHER ->
                 awaiting([s EXCEPT !.runs[i].pc = "tables", !.runs[i].tables = answer.n])

\* the loop over the tables goes on, or the run finishes
nextTable(s, i, item, time) ==
    IF s.runs[i].tables = 0 THEN finish(s, i, item, time)
    ELSE awaiting([s EXCEPT !.runs[i].pc = "tables"])

\* STEP 1 of updatePendingReversalsCount: the reversal_requests rows and the
\* audits they refer to; the tables they cover are not queried in STEP 2
afterRequests(s, i, item, time, answer) ==
    LET run == s.runs[i]
        found == IF answer.kind = "rows" THEN answer.n ELSE 0
        covered == IF answer.kind = "rows" THEN answer.covers ELSE 0
    IN  nextTable([s EXCEPT !.runs[i].total = run.total + found,
                            !.runs[i].tables = run.tables - covered,
                            !.runs[i].answers = Answered(run.type, run.answers, answer)],
                  i, item, time)

\* one table of the loop answers: its rows are counted, an error or an
\* exception skips it
afterTable(s, i, item, time, answer) ==
    LET run == s.runs[i]
        found == IF answer.kind = "rows" THEN answer.n ELSE 0
    IN  nextTable([s EXCEPT !.runs[i].total = run.total + found,
                            !.runs[i].tables = run.tables - 1,
                            !.runs[i].answers = Answered(run.type, run.answers, answer)],
                  i, item, time)

UPDATE_INTERVAL_MS == 300000

\* The interval timers of the window: the ids issued so far and the timers
\* that are armed.  setInterval returns a fresh positive id.
NoWindowTimers == [issued |-> 0, active |-> {}]

setInterval(w, handle, every) ==
    [issued |-> w.issued + 1,
     active |-> w.active \cup {[id |-> w.issued + 1, handle |-> handle, every |-> every]}]

clearInterval(w, id) == [w EXCEPT !.active = {timer \in @ : timer.id # id}]

\* one if of clearNotificationUpdateIntervals; t holds the handles of
\* notificationUpdateIntervals, null being 0, and the timers of the window
clearHandle(t, handle) ==
    IF t.intervals[handle] # 0
    THEN [intervals |-> [t.intervals EXCEPT ![handle] = 0],
          windowTimers |-> clearInterval(t.windowTimers, t.intervals[handle])]
    ELSE t

clearNotificationUpdateIntervals(t) ==
    clearHandle(clearHandle(clearHandle(t, "reversals"), "employeeReversals"),
                "acknowledgments")

\* one assignment of setupNotificationUpdateIntervals
setHandle(t, handle) ==
    LET armed == setInterval(t.windowTimers, handle, UPDATE_INTERVAL_MS)
    IN  [intervals |-> [t.intervals EXCEPT ![handle] = armed.issued],
         windowTimers |-> armed]

setupWithoutClearing(t) ==
    setHandle(setHandle(setHandle(t, "reversals"), "employeeReversals"), "acknowledgments")

setupNotificationUpdateIntervals(t) ==
    setHandle(setHandle(setHandle(clearNotificationUpdateIntervals(t), "reversals"),
                        "employeeReversals"),
              "acknowledgments")

pagesWithoutSidebar == {"login.html", "index.html"}

(***************************************************************************)
(* Bounded sets of reversal records.                                       *)
(***************************************************************************)
MaxAckWords == 2

\* the accepted representations of a boolean column, and no value at all
TriStateValues ==
    {Undefined, Null, Bool(TRUE), Bool(FALSE), Str(s_true), Str(s_false),
     Num(1), Num(0), Str(s_1), Str(s_0)}

\* what reversal_approved may hold besides the accepted representations
ApprovedValues == TriStateValues \cup {Str(in_yes), Str(<<>>), Num(2)}

TenLabels ==
    {Str(s_team_lead_review), Str(s_team_lead_rejected), Str(s_qa_review),
     Str(s_cqc_review), Str(s_cqc_sent_back), Str(s_agent_re_review),
     Str(s_approved), Str(s_rejected), Str(s_acknowledged), Str(s_pending)}

ExplicitStates == TenLabels \cup {Str(s_submitted), Str(s_team_lead_approved), Str(in_escalated)}

NoState == {Undefined, Null, Str(<<>>)}

AckWords ==
    {s_team_lead_review, s_team_lead_rejected, s_qa_review, s_auditor_review,
     s_cqc_review, s_cqc_sent_back, s_agent_re_review, s_reversal_approved,
     s_reversal_rejected, s_acknowledged, in_REVERSAL_APPROVED, in_Pending,
     in_pending_dash}

RECURSIVE JoinWords(_)
JoinWords(ws) ==
    IF ws = <<>> THEN <<>>
    ELSE IF Len(ws) = 1 THEN ws[1]
    ELSE ws[1] \o <<" ">> \o JoinWords(Tail(ws))

\* legacy status texts: up to MaxAckWords words separated by one space
AckTexts ==
    {Str(JoinWords(ws)) : ws \in UNION {[1..k -> AckWords] : k \in 0..MaxAckWords}}

PlainAckTexts ==
    {Undefined, Null, Str(<<>>), Str(in_Pending), Str(in_escalated),
     Str(in_Reversal_Approved), Str(in_Acknowledged)}

Rec(st, tla, tlaC, by, byC, ack, ackC, appr) ==
    [reversal_workflow_state |-> st,
     team_lead_approved |-> tla, teamLeadApproved |-> tlaC,
     team_lead_reviewed_by |-> by, teamLeadReviewedBy |-> byC,
     acknowledgement_status |-> ack, acknowledgementStatus |-> ackC,
     reversal_approved |-> appr]

\* records of the structured workflow: every pair of team-lead values
TeamLeadRecord(r) ==
    \E st \in {Str(s_qa_review), Str(s_cqc_review), Str(s_approved), Str(s_submitted)},
       tla \in TriStateValues, tlaC \in TriStateValues,
       by \in {Undefined, Str(in_blank), Str(in_Bob)},
       appr \in {Undefined, Null, Bool(TRUE)} :
        r = Rec(st, tla, tlaC, by, Undefined, Undefined, Undefined, appr)

\* records of the structured workflow: every state and reviewer name
ExplicitRecord(r) ==
    \E st \in ExplicitStates,
       tla \in {Undefined, Bool(TRUE), Str(s_false)},
       tlaC \in {Undefined, Num(1), Str(s_0)},
       by \in {Undefined, Null, Str(<<>>), Str(in_blank), Str(in_Bob)},
       byC \in {Undefined, Str(in_Al)},
       ack \in {Undefined, Str(s_pending_reversal_approved)},
       appr \in {Undefined, Null, Bool(TRUE)} :
        r = Rec(st, tla, tlaC, by, byC, ack, Undefined, appr)

\* historical records: every keyword text
KeywordRecord(r) ==
    \E st \in NoState, tla \in {Undefined, Bool(TRUE)},
       ack \in AckTexts, appr \in {Undefined, Bool(TRUE), Bool(FALSE)} :
        r = Rec(st, tla, Undefined, Undefined, Undefined, ack, Undefined, appr)

\* historical records: both spellings of the status, every reversal_approved
FallbackRecord(r) ==
    \E st \in NoState, tla \in {Undefined, Str(s_false)}, tlaC \in {Undefined, Num(1)},
       ack \in PlainAckTexts \cup {Str(s_reversal_approved)},
       ackC \in {Undefined, Str(in_REVERSAL_APPROVED), Str(s_qa_review)},
       appr \in ApprovedValues :
        r = Rec(st, tla, tlaC, Undefined, Undefined, ack, ackC, appr)

\* stored user records of the cache runs: no record, and two spellings of
\* one address
CacheUsers ==
    {NoUserItem,
     UserObject(Str(in_a_x), Str(in_Quality_Analyst)),
     UserObject(Str(in_A_X_padded), Str(in_Quality_Analyst))}

\* stored user records of the sidebar runs: every way a role can be held
RoleUsers ==
    {NoUserItem, UnparsableUserItem, JsonNullUserItem,
     UserObject(Str(in_a_x), Str(s_Employee)),
     UserObject(Str(in_a_x), Str(s_Super_Admin)),
     UserObject(Str(in_a_x), Str(in_Quality_Analyst)),
     UserObject(Str(in_a_x), Str(in_employee_lower)),
     UserObject(Str(in_a_x), Str(in_Super_Admin_padded)),
     UserObject(Str(in_a_x), Undefined)}

\* stored user records of the badge runs
BadgeUsers ==
    {NoUserItem,
     UserObject(Str(in_a_x), Str(s_Employee)),
     UserObject(Str(in_a_x), Str(in_Quality_Analyst))}

NotificationTypes == {"reversals", "employeeReversals", "acknowledgments"}

CachedCounts == {0, 42}

BadgeCounts == {0, 1, 99, 100}

\* the instants of the cache runs: a write at 0 is read at the end of its
\* freshness window and a millisecond later
Instants == {0, CACHE_DURATION_MS, CACHE_DURATION_MS + 1}

MaxCachedEntries == 2

MaxStoredKeys == 3

Pages == {"index.html", "audit-reports.html"}

Protocols == {"file:", "https:"}

\* the cache a previous page view left for the user, written at time 0
PreviouslyCached(item) ==
    setCachedNotificationCount(
        setCachedNotificationCount(
            setCachedNotificationCount(<<>>, item, 0, "reversals", 7),
            item, 0, "employeeReversals", 100),
        item, 0, "acknowledgments", 0)

VARIABLES
    reversal,             \* the record handed to the classifier
    call,                 \* the last classifier call and what it returned
    backend,              \* the rows and answers of the backend a count is made from
    localStorage,         \* the cache items of localStorage: key -> string
    userInfo,             \* the item userInfo of localStorage, as JSON.parse reads it
    now,                  \* Date.now()
    page,                 \* the last segment of window.location.pathname
    protocol,             \* window.location.protocol
    globalSidebarLoader,  \* "null" until initSidebar has run
    isLoaded,             \* SidebarLoader.isLoaded
    fetching,             \* the loadSidebar calls awaiting fetch("sidebar.html")
    document,             \* the sidebar navs in the page, first in document order first
    events,               \* usingFallback of each sidebarLoaded event dispatched
    last,                 \* the last cache or sidebar call and what it did
    written,              \* the last complete cache write of each category and user
    supabaseClient,       \* whether window.supabaseClient is set
    runs,                 \* the recomputations awaiting an answer of the backend
    timers,               \* the pending setTimeout retries of each update function
    intervals,            \* the handles of notificationUpdateIntervals, null being 0
    windowTimers,         \* the interval timers of the window
    refresh,              \* the promise of window.refreshAllNotificationCounts
    started,              \* the calls of each update function, and what made them
    unloaded,             \* whether the beforeunload listener has run
    tabs,                 \* the cache call each tab sharing the storage is in
    origin                \* the write that stored each cache item, and when

vars ==
    <<reversal, call, backend, localStorage, userInfo, now, page, protocol, globalSidebarLoader,
      isLoaded, fetching, document, events, last, written, supabaseClient, runs, timers,
      intervals, windowTimers, refresh, started, unloaded, tabs, origin>>

classifierVars == <<reversal, call, backend>>

storageVars == <<localStorage, now, written>>

pageVars == <<page, protocol, globalSidebarLoader, isLoaded, fetching, document, events>>

updateVars ==
    <<supabaseClient, runs, timers, intervals, windowTimers, refresh, started, unloaded>>

tabVars == <<tabs, origin>>

NoCall == [op |-> "none", ret |-> Undefined]

\* a backend that holds no reversal
NoBackend == [requests |-> <<>>, statesFail |-> FALSE, auditsFail |-> FALSE, audits |-> <<>>]

NoReversal ==
    Rec(Undefined, Undefined, Undefined, Undefined, Undefined, Undefined, Undefined, Undefined)

Did(op, type, count, ret, hid) ==
    [op |-> op, type |-> type, count |-> count, ret |-> ret, hid |-> hid]

Nothing == Did("none", "", Undefined, Undefined, {})

NeverCalled == [calls |-> 0, retries |-> 0, by |-> {}]

\* window.refreshAllNotificationCounts has not been called
NotRefreshing == [pc |-> "idle", recomputed |-> {}, failed |-> {}]

Tabs == {"this tab", "another tab"}

\* a tab that is in no call of the cache
IdleTab == [pc |-> "idle", count |-> 0, cachedData |-> Null, writtenAt |-> 0, writes |-> 0]

TabsIdle == tabs = [tab \in Tabs |-> IdleTab] /\ origin = <<>>

\* no update function has been called and nothing is scheduled
UpdatesIdle ==
    /\ runs = <<>>
    /\ timers = [type \in NotificationTypes |-> 0]
    /\ intervals = [handle \in NotificationTypes |-> 0]
    /\ windowTimers = NoWindowTimers
    /\ refresh = NotRefreshing
    /\ started = [type \in NotificationTypes |-> NeverCalled]
    /\ unloaded = FALSE
    /\ TabsIdle

\* the state after construction, before the page has run anything
ClassifierIdle == reversal = NoReversal /\ call = NoCall /\ backend = NoBackend

StorageEmpty == localStorage = <<>> /\ now = 0 /\ written = {}

PageConstructed ==
    /\ globalSidebarLoader = "null"
    /\ isLoaded = FALSE
    /\ fetching = 0
    /\ document = <<>>
    /\ events = <<>>
    /\ last = Nothing

(***************************************************************************)
(* The classifier applied to a record.                                     *)
(***************************************************************************)
InitClassify ==
    /\ \/ TeamLeadRecord(reversal)
       \/ ExplicitRecord(reversal)
       \/ KeywordRecord(reversal)
       \/ FallbackRecord(reversal)
    /\ call = NoCall
    /\ backend = NoBackend
    /\ StorageEmpty
    /\ userInfo = NoUserItem
    /\ page = "audit-reports.html"
    /\ protocol = "https:"
    /\ PageConstructed
    /\ supabaseClient = TRUE
    /\ UpdatesIdle

CallGetReversalWorkflowState ==
    /\ call' = [op |-> "getReversalWorkflowState",
                ret |-> getReversalWorkflowState(reversal)]
    /\ UNCHANGED <<reversal, backend, storageVars, userInfo, pageVars, last, updateVars,
                   tabVars>>

CallIsPendingWorkflowState ==
    /\ call' = [op |-> "isPendingWorkflowState",
                ret |-> Bool(isPendingWorkflowState(reversal))]
    /\ UNCHANGED <<reversal, backend, storageVars, userInfo, pageVars, last, updateVars,
                   tabVars>>

NextClassify ==
    \/ CallGetReversalWorkflowState
    \/ CallIsPendingWorkflowState

SpecClassify == InitClassify /\ [][NextClassify]_vars

(***************************************************************************)
(* The backends a count is made from: up to MaxRequests rows of            *)
(* reversal_requests for the audits 1 and 2 of the scorecard tables T      *)
(* and U.                                                                  *)
(***************************************************************************)
MaxRequests == 2

AuditIds == {1, 2}

ScorecardTables == {"T", "U"}

CurrentStates == {<<>>, s_approved, s_acknowledged, s_qa_review}

ReversalRequests == [audit_id : AuditIds, table : ScorecardTables, current : CurrentStates]

InitPending ==
    /\ \E n \in 0..MaxRequests :
          \E requests \in [1..n -> ReversalRequests],
             audits \in [ScorecardTables -> [AuditIds -> {"absent", "plain", "requested"}]],
             statesFail \in BOOLEAN, auditsFail \in BOOLEAN :
              backend = [requests |-> requests, statesFail |-> statesFail,
                         auditsFail |-> auditsFail, audits |-> audits]
    /\ reversal = NoReversal
    /\ call = NoCall
    /\ StorageEmpty
    /\ userInfo = NoUserItem
    /\ page = "audit-reports.html"
    /\ protocol = "https:"
    /\ PageConstructed
    /\ supabaseClient = TRUE
    /\ UpdatesIdle

\* the backend answers the queries of one run of updatePendingReversalsCount
CallUpdatePendingReversalsCount ==
    /\ call.op = "none"
    /\ call' = [op |-> "updatePendingReversalsCount", ret |-> pendingReversals(backend)]
    /\ UNCHANGED <<reversal, backend, storageVars, userInfo, pageVars, last, updateVars,
                   tabVars>>

NextPending == CallUpdatePendingReversalsCount

SpecPending == InitPending /\ [][NextPending]_vars

(***************************************************************************)
(* The stored user record changes when a user signs in or out, in this tab *)
(* or another one.                                                         *)
(***************************************************************************)
StoreUserInfo(users) ==
    /\ \E u \in users : u # userInfo /\ userInfo' = u
    /\ last' = Nothing
    /\ UNCHANGED <<classifierVars, storageVars, pageVars, updateVars, tabVars>>

(***************************************************************************)
(* The cache over time.                                                    *)
(***************************************************************************)
InitCache ==
    /\ ClassifierIdle
    /\ StorageEmpty
    /\ userInfo \in CacheUsers
    /\ page = "audit-reports.html"
    /\ protocol = "https:"
    /\ PageConstructed
    /\ supabaseClient = TRUE
    /\ UpdatesIdle

\* the entries of the other categories and users, and this write
Rewritten(type, count) ==
    {w \in written : ~(w.type = type /\ w.email = userEmailOf(userInfo))}
        \cup {[type |-> type, email |-> userEmailOf(userInfo), count |-> count, at |-> now]}

SetCachedNotificationCount ==
    \E type \in NotificationTypes, count \in CachedCounts :
        /\ Cardinality({[type |-> w.type, email |-> w.email] : w \in Rewritten(type, count)})
               <= MaxCachedEntries
        /\ localStorage' = setCachedNotificationCount(localStorage, userInfo, now, type, count)
        /\ written' = Rewritten(type, count)
        /\ last' = Did("setCachedNotificationCount", type, Num(count), Undefined, {})
        /\ UNCHANGED <<classifierVars, userInfo, now, pageVars, updateVars, tabVars>>

GetCachedNotificationCount ==
    \E type \in NotificationTypes :
        LET r == getCachedNotificationCount(localStorage, userInfo, now, type)
        IN  /\ localStorage' = r.store
            /\ last' = Did("getCachedNotificationCount", type, Undefined, r.ret, {})
            /\ UNCHANGED <<classifierVars, userInfo, now, written, pageVars, updateVars, tabVars>>

\* time passes
Tick ==
    \E instant \in Instants :
        /\ instant > now
        /\ now' = instant
        /\ last' = Nothing
        /\ UNCHANGED <<classifierVars, localStorage, written, userInfo, pageVars,
                       updateVars, tabVars>>

NextCache ==
    \/ SetCachedNotificationCount
    \/ GetCachedNotificationCount
    \/ Tick
    \/ StoreUserInfo(CacheUsers)

SpecCache == InitCache /\ [][NextCache]_vars

(***************************************************************************)
(* The cache of two users whose addresses differ by the prefix timestamp_. *)
(***************************************************************************)
KeyUsers ==
    {UserObject(Str(in_a_x), Str(in_Quality_Analyst)),
     UserObject(Str(<<"t", "i", "m", "e", "s", "t", "a", "m", "p", "_">> \o in_a_x),
                Str(in_Quality_Analyst))}

InitKeys ==
    /\ InitCache
    /\ userInfo = UserObject(Str(in_a_x), Str(in_Quality_Analyst))

NextKeys ==
    \/ SetCachedNotificationCount
    \/ GetCachedNotificationCount
    \/ Tick
    \/ StoreUserInfo(KeyUsers)

SpecKeys == InitKeys /\ [][NextKeys]_vars

(***************************************************************************)
(* The cache when the storage can be full.                                 *)
(***************************************************************************)
\* a write into a storage with room for 0, 1 or 2 more setItem calls; a
\* write cut short leaves no complete write of the category and user
SetCachedNotificationCountWithRoom ==
    \E type \in NotificationTypes, count \in CachedCounts, room \in {0, 1, 2} :
        LET stored == setCachedNotificationCountWithRoom(localStorage, userInfo, now, type,
                                                        count, room)
        IN  /\ Cardinality(DOMAIN stored) <= MaxStoredKeys
            /\ localStorage' = stored
            /\ written' = IF room = 2 THEN Rewritten(type, count)
                          ELSE IF room = 0 THEN written
                          ELSE {w \in written :
                                   ~(w.type = type /\ w.email = userEmailOf(userInfo))}
            /\ last' = Did("setCachedNotificationCount", type, Num(count), Undefined, {})
            /\ UNCHANGED <<classifierVars, userInfo, now, pageVars, updateVars, tabVars>>

NextCacheFaults ==
    \/ SetCachedNotificationCountWithRoom
    \/ GetCachedNotificationCount
    \/ Tick

SpecCacheFaults == InitCache /\ [][NextCacheFaults]_vars

(***************************************************************************)
(* The cache and the clearing of window.refreshAllNotificationCounts, for  *)
(* every way the item userInfo can be stored.                              *)
(***************************************************************************)
ClearUsers ==
    {NoUserItem, UnparsableUserItem, JsonNullUserItem,
     UserObject(Str(in_a_x), Str(in_Quality_Analyst)),
     UserObject(Str(in_A_X_padded), Str(in_Quality_Analyst)),
     UserObject(Undefined, Str(in_Quality_Analyst))}

InitClear ==
    /\ InitCache
    /\ userInfo = NoUserItem

\* the clearing of the cache, the recomputations that follow left aside
ClearNotificationCache ==
    /\ localStorage' = clearNotificationCache(localStorage, userInfo)
    /\ written' = IF clearThrows(userInfo) THEN written
                  ELSE {w \in written : w.email # clearedEmailOf(userInfo)}
    /\ last' = Did("clearNotificationCache", "", Undefined, Undefined, {})
    /\ UNCHANGED <<classifierVars, userInfo, now, pageVars, updateVars, tabVars>>

NextClear ==
    \/ SetCachedNotificationCount
    \/ GetCachedNotificationCount
    \/ ClearNotificationCache
    \/ Tick
    \/ StoreUserInfo(ClearUsers)

SpecClear == InitClear /\ [][NextClear]_vars

NextClearFaults ==
    \/ SetCachedNotificationCountWithRoom
    \/ GetCachedNotificationCount
    \/ ClearNotificationCache
    \/ Tick

InitClearFaults ==
    /\ InitCache
    /\ userInfo = UserObject(Str(in_a_x), Str(in_Quality_Analyst))

SpecClearFaults == InitClearFaults /\ [][NextClearFaults]_vars

(***************************************************************************)
(* The page: initSidebar runs once, loadSidebar awaits the fetch of        *)
(* sidebar.html and then inserts the sidebar and paints it.                *)
(***************************************************************************)
InitPage(users) ==
    /\ ClassifierIdle
    /\ userInfo \in users
    /\ now = 0
    /\ written = {}
    /\ localStorage \in {<<>>, PreviouslyCached(userInfo)}
    /\ page \in Pages
    /\ protocol \in Protocols
    /\ PageConstructed
    /\ supabaseClient = TRUE
    /\ UpdatesIdle

\* one more call of an update function, made by the page load, by the
\* interval of a handle or by a retry
Called(s, by, handle) ==
    [calls |-> s.calls + 1,
     retries |-> IF by = "setTimeout" THEN s.retries + 1 ELSE s.retries,
     by |-> s.by \cup {[by |-> by, handle |-> handle]}]

\* loadSidebar from the creation of the temporary container on
loadSidebarBody(usingFallback) ==
    LET inserted == <<SidebarNav>> \o document
        gated == updateAccessControlMenuItem(hideEmployeeMenuItems(inserted, userInfo), userInfo)
        painted == loadNotificationCountsFromCache(gated, localStorage, userInfo, now)
        updated == updateAllCounts([doc |-> painted.doc, runs |-> runs, timers |-> timers],
                                   userInfo, supabaseClient)
        armed == setupNotificationUpdateIntervals(
                     [intervals |-> intervals, windowTimers |-> windowTimers])
    IN  /\ document' = updated.doc
        /\ runs' = updated.runs
        /\ timers' = updated.timers
        /\ started' = [type \in NotificationTypes |-> Called(started[type], "load", "")]
        /\ intervals' = armed.intervals
        /\ windowTimers' = armed.windowTimers
        /\ localStorage' = painted.store
        /\ isLoaded' = TRUE
        /\ events' = Append(events, usingFallback)
        /\ last' = Did("loadSidebar", "", Undefined, Bool(usingFallback), {})

\* the DOMContentLoaded handler: initSidebar, init, and loadSidebar up to its await
InitSidebar ==
    /\ globalSidebarLoader = "null"
    /\ globalSidebarLoader' = "SidebarLoader"
    /\ IF page \in pagesWithoutSidebar \/ isLoaded
       THEN UNCHANGED <<localStorage, isLoaded, fetching, document, events, last, runs,
                        timers, intervals, windowTimers, started>>
       ELSE IF protocol = "file:"
            THEN loadSidebarBody(TRUE) /\ UNCHANGED fetching
            ELSE /\ fetching' = fetching + 1
                 /\ UNCHANGED <<localStorage, isLoaded, document, events, last, runs,
                                timers, intervals, windowTimers, started>>
    /\ UNCHANGED <<classifierVars, userInfo, now, written, page, protocol, supabaseClient,
                   unloaded, tabVars, refresh>>

\* the fetch settles: sidebar.html arrives, arrives without a nav.sidebar
\* element, or the request fails
FetchSettled ==
    \E outcome \in {"ok", "no nav", "failed"} :
        /\ fetching > 0
        /\ fetching' = fetching - 1
        /\ IF outcome = "no nav"
           THEN UNCHANGED <<localStorage, isLoaded, document, events, last, runs,
                            timers, intervals, windowTimers, started>>
           ELSE loadSidebarBody(outcome = "failed")
        /\ UNCHANGED <<classifierVars, userInfo, now, written, page, protocol,
                       globalSidebarLoader, supabaseClient, unloaded, tabVars, refresh>>

(***************************************************************************)
(* The badges.                                                             *)
(***************************************************************************)
SetReversalBadgeCount ==
    \E count \in BadgeCounts :
        /\ document' = setReversalBadgeCount(document, Num(count))
        /\ last' = Did("setReversalBadgeCount", "", Num(count), Undefined, {})
        /\ UNCHANGED <<classifierVars, storageVars, userInfo, page, protocol,
                       globalSidebarLoader, isLoaded, fetching, events, updateVars, tabVars>>

SetEmployeeReversalBadgeCount ==
    \E count \in BadgeCounts :
        /\ document' = setEmployeeReversalBadgeCount(document, userInfo, Num(count))
        /\ last' = Did("setEmployeeReversalBadgeCount", "", Num(count), Undefined, {})
        /\ UNCHANGED <<classifierVars, storageVars, userInfo, page, protocol,
                       globalSidebarLoader, isLoaded, fetching, events, updateVars, tabVars>>

SetAcknowledgmentBadgeCount ==
    \E count \in BadgeCounts :
        /\ document' = setAcknowledgmentBadgeCount(document, Num(count))
        /\ last' = Did("setAcknowledgmentBadgeCount", "", Num(count), Undefined, {})
        /\ UNCHANGED <<classifierVars, storageVars, userInfo, page, protocol,
                       globalSidebarLoader, isLoaded, fetching, events, updateVars, tabVars>>

NextBadges ==
    \/ InitSidebar
    \/ FetchSettled
    \/ SetReversalBadgeCount
    \/ SetEmployeeReversalBadgeCount
    \/ SetAcknowledgmentBadgeCount
    \/ StoreUserInfo(BadgeUsers)

InitBadges == InitPage(BadgeUsers)

SpecBadges == InitBadges /\ [][NextBadges]_vars

(***************************************************************************)
(* Calls of loadSidebar on the loader of the page beside the one init      *)
(* makes: a call made while an earlier one awaits the fetch has passed     *)
(* the test of isLoaded.                                                   *)
(***************************************************************************)
MaxLoads == 2

\* loadSidebar is called on the loader of the page
LoadSidebarCalled ==
    /\ globalSidebarLoader # "null"
    /\ Len(events) + fetching < MaxLoads
    /\ IF isLoaded
       THEN /\ last' = Nothing
            /\ UNCHANGED <<localStorage, isLoaded, fetching, document, events, runs,
                           timers, intervals, windowTimers, started>>
       ELSE IF protocol = "file:"
            THEN loadSidebarBody(TRUE) /\ UNCHANGED fetching
            ELSE /\ fetching' = fetching + 1
                 /\ last' = Nothing
                 /\ UNCHANGED <<localStorage, isLoaded, document, events, runs,
                                timers, intervals, windowTimers, started>>
    /\ UNCHANGED <<classifierVars, userInfo, now, written, page, protocol,
                   globalSidebarLoader, supabaseClient, unloaded, tabVars, refresh>>

NextLoads ==
    \/ InitSidebar
    \/ LoadSidebarCalled
    \/ FetchSettled

InitLoads == InitPage(BadgeUsers)

SpecLoads == InitLoads /\ [][NextLoads]_vars

(***************************************************************************)
(* The role-gated navigation entries.                                      *)
(***************************************************************************)
\* the entries whose display a call turned to none
NewlyHidden(before, after) ==
    IF after = <<>> THEN {}
    ELSE {e \in MenuEntries : after[1].menu[e] = "none" /\ before[1].menu[e] # "none"}

HideEmployeeMenuItems ==
    /\ document' = hideEmployeeMenuItems(document, userInfo)
    /\ last' = Did("hideEmployeeMenuItems", "", Undefined, Undefined,
                   NewlyHidden(document, document'))
    /\ UNCHANGED <<classifierVars, storageVars, userInfo, page, protocol,
                   globalSidebarLoader, isLoaded, fetching, events, updateVars, tabVars>>

UpdateAccessControlMenuItem ==
    /\ document' = updateAccessControlMenuItem(document, userInfo)
    /\ last' = Did("updateAccessControlMenuItem", "", Undefined, Undefined,
                   NewlyHidden(document, document'))
    /\ UNCHANGED <<classifierVars, storageVars, userInfo, page, protocol,
                   globalSidebarLoader, isLoaded, fetching, events, updateVars, tabVars>>

NextMenu ==
    \/ InitSidebar
    \/ FetchSettled
    \/ HideEmployeeMenuItems
    \/ UpdateAccessControlMenuItem
    \/ StoreUserInfo(RoleUsers)

InitMenu == InitPage(RoleUsers)

SpecMenu == InitMenu /\ [][NextMenu]_vars

(***************************************************************************)
(* The recomputations: the page loads, the backend answers each query of   *)
(* the runs the load started, and time passes.                             *)
(***************************************************************************)
MaxTables == 2

\* the rows a query returns that count
RowCounts == {0, 1}

Answer(kind, n, covers) == [kind |-> kind, n |-> n, covers |-> covers]

Failures == {Answer("error", 0, 0), Answer("thrown", 0, 0)}

\* a column the table does not have: code PGRST116 or 42703, or a message
\* naming acknowledgement_status, returned or thrown
SchemaFailures == {Answer("schema error", 0, 0), Answer("schema thrown", 0, 0)}

ScorecardsAnswers == Failures \cup {Answer("rows", n, 0) : n \in 0..MaxTables}

RequestsAnswers(tables) ==
    Failures \cup UNION {{Answer("rows", n, covers) :
                             covers \in {c \in 0..1 : c <= n /\ c <= tables}} :
                         n \in RowCounts}

TableAnswers(type) ==
    Failures \cup {Answer("rows", n, 0) : n \in RowCounts}
        \cup IF type = "acknowledgments" THEN SchemaFailures ELSE {}

UpdateFunctions ==
    [reversals |-> "updatePendingReversalsCount",
     employeeReversals |-> "updateEmployeeReversalUpdatesCount",
     acknowledgments |-> "updatePendingAcknowledgmentsCount"]

\* the cache keys and the badges a step changed
ChangedKeys(before, after) ==
    {k \in DOMAIN before \cup DOMAIN after :
        IF k \in DOMAIN before /\ k \in DOMAIN after THEN before[k] # after[k] ELSE TRUE}

ChangedBadges(before, after) ==
    IF before = <<>> \/ after = <<>> THEN {}
    ELSE {b \in BadgeIds : before[1].badges[b] # after[1].badges[b]}

Ran(type, s, changed) ==
    [op |-> UpdateFunctions[type], type |-> type, count |-> s.count, ret |-> s.ret,
     hid |-> {}, outcome |-> s.outcome, answers |-> s.answers, changed |-> changed,
     logs |-> s.logs, denied |-> s.denied]

\* what a resumed run works on
Resuming ==
    [doc |-> document, store |-> localStorage, runs |-> runs, outcome |-> "awaiting",
     count |-> Undefined, ret |-> Undefined, answers |-> NoAnswers, logs |-> {},
     denied |-> FALSE]

\* the same while every call of localStorage throws
ResumingStorageDenied == [Resuming EXCEPT !.denied = TRUE]

Resumed(i, s) ==
    /\ document' = s.doc
    /\ localStorage' = s.store
    /\ runs' = s.runs
    /\ written' = IF s.outcome = "finished" /\ ~s.denied
                  THEN Rewritten(runs[i].type, s.count.n)
                  ELSE written
    /\ last' = IF s.outcome = "awaiting" THEN Nothing
               ELSE Ran(runs[i].type, s, ChangedKeys(localStorage, s.store)
                                             \cup ChangedBadges(document, s.doc))
    /\ UNCHANGED <<classifierVars, userInfo, now, page, protocol, globalSidebarLoader,
                   isLoaded, fetching, events, supabaseClient, timers, intervals, windowTimers,
                   started,
                   unloaded, tabVars, refresh>>

ScorecardsAnswered ==
    \E i \in DOMAIN runs :
        /\ runs[i].pc = "scorecards"
        /\ \E answer \in ScorecardsAnswers :
               Resumed(i, afterScorecards(Resuming, i, userInfo, now, answer))

RequestsAnswered ==
    \E i \in DOMAIN runs :
        /\ runs[i].pc = "requests"
        /\ \E answer \in RequestsAnswers(runs[i].tables) :
               Resumed(i, afterRequests(Resuming, i, userInfo, now, answer))

TableAnswered ==
    \E i \in DOMAIN runs :
        /\ runs[i].pc = "tables"
        /\ \E answer \in TableAnswers(runs[i].type) :
               Resumed(i, afterTable(Resuming, i, userInfo, now, answer))

InitRecompute ==
    /\ InitPage(BadgeUsers)
    /\ page = "audit-reports.html"
    /\ protocol = "https:"

(***************************************************************************)
(* The timers: the intervals of the three handles, the retries armed while *)
(* window.supabaseClient is missing, and the beforeunload listener.  The   *)
(* runs the calls start stay in flight.                                    *)
(***************************************************************************)
MaxCalls == 3

InitTimers ==
    /\ ClassifierIdle
    /\ userInfo \in BadgeUsers
    /\ now = 0
    /\ written = {}
    /\ localStorage \in {<<>>, PreviouslyCached(userInfo)}
    /\ page = "audit-reports.html"
    /\ protocol \in Protocols
    /\ PageConstructed
    /\ supabaseClient \in BOOLEAN
    /\ UpdatesIdle

\* the script that creates the backend client has run
ClientInitialized ==
    /\ ~supabaseClient
    /\ supabaseClient' = TRUE
    /\ last' = Nothing
    /\ UNCHANGED <<classifierVars, storageVars, userInfo, pageVars, runs, timers, intervals,
                   windowTimers, started, unloaded, tabVars, refresh>>

\* a timer calls the update function of a category
TimerCalls(type, by, handle, pending) ==
    LET u == updateCount(type, [doc |-> document, runs |-> runs, timers |-> pending],
                         userInfo, supabaseClient)
    IN  /\ started[type].calls < MaxCalls
        /\ document' = u.doc
        /\ runs' = u.runs
        /\ timers' = u.timers
        /\ started' = [started EXCEPT ![type] = Called(@, by, handle)]
        /\ last' = Did(by, type, Undefined, Undefined, {})
        /\ UNCHANGED <<classifierVars, storageVars, userInfo, page, protocol,
                       globalSidebarLoader, isLoaded, fetching, events, supabaseClient,
                       intervals, windowTimers, unloaded, tabVars, refresh>>

\* the interval of a handle elapses
IntervalElapsed ==
    \E timer \in windowTimers.active :
        TimerCalls(intervalCallback(timer.handle), "setInterval", timer.handle, timers)

\* a retry armed by setTimeout comes due
RetryDue ==
    \E type \in NotificationTypes :
        /\ timers[type] > 0
        /\ TimerCalls(type, "setTimeout", type, [timers EXCEPT ![type] = @ - 1])

\* the beforeunload listener
BeforeUnload ==
    /\ ~unloaded
    /\ unloaded' = TRUE
    /\ LET cleared == clearNotificationUpdateIntervals(
                           [intervals |-> intervals, windowTimers |-> windowTimers])
       IN  IF globalSidebarLoader # "null"
           THEN intervals' = cleared.intervals /\ windowTimers' = cleared.windowTimers
           ELSE UNCHANGED <<intervals, windowTimers>>
    /\ last' = Did("beforeunload", "", Undefined, Undefined, {})
    /\ UNCHANGED <<classifierVars, storageVars, userInfo, pageVars, supabaseClient, runs,
                   timers, started, tabVars, refresh>>

NextTimers ==
    \/ InitSidebar
    \/ FetchSettled
    \/ ClientInitialized
    \/ IntervalElapsed
    \/ RetryDue
    \/ BeforeUnload

SpecTimers == InitTimers /\ [][NextTimers]_vars

(***************************************************************************)
(* The handles of one SidebarLoader under any sequence of calls of         *)
(* setupNotificationUpdateIntervals and clearNotificationUpdateIntervals.  *)
(***************************************************************************)
MaxSetups == 2

InitIntervals ==
    /\ InitTimers
    /\ userInfo = UserObject(Str(in_a_x), Str(in_Quality_Analyst))
    /\ localStorage = <<>>
    /\ supabaseClient

\* a call of setupNotificationUpdateIntervals on the loader of the page
SetupCalled ==
    LET armed == setupNotificationUpdateIntervals(
                     [intervals |-> intervals, windowTimers |-> windowTimers])
    IN  /\ globalSidebarLoader # "null"
        /\ windowTimers.issued < 3 * MaxSetups
        /\ intervals' = armed.intervals
        /\ windowTimers' = armed.windowTimers
        /\ last' = Did("setupNotificationUpdateIntervals", "", Undefined, Undefined, {})
        /\ UNCHANGED <<classifierVars, storageVars, userInfo, pageVars, supabaseClient, runs,
                       timers, started, unloaded, tabVars, refresh>>

\* a call of clearNotificationUpdateIntervals on the loader of the page
ClearCalled ==
    LET cleared == clearNotificationUpdateIntervals(
                       [intervals |-> intervals, windowTimers |-> windowTimers])
    IN  /\ globalSidebarLoader # "null"
        /\ intervals' = cleared.intervals
        /\ windowTimers' = cleared.windowTimers
        /\ last' = Did("clearNotificationUpdateIntervals", "", Undefined, Undefined, {})
        /\ UNCHANGED <<classifierVars, storageVars, userInfo, pageVars, supabaseClient, runs,
                       timers, started, unloaded, tabVars, refresh>>

NextIntervals ==
    \/ InitSidebar
    \/ FetchSettled
    \/ SetupCalled
    \/ ClearCalled
    \/ IntervalElapsed
    \/ BeforeUnload

SpecIntervals == InitIntervals /\ [][NextIntervals]_vars

(***************************************************************************)
(* The cache shared by several tabs.  A tab runs one call of the cache at  *)
(* a time; between two calls of localStorage by one tab another tab can    *)
(* make calls of its own.  The category is reversals and no user is        *)
(* stored.                                                                 *)
(***************************************************************************)
MaxWrites == 2

TabKey == getNotificationCacheKey("reversals", NoUserItem)

TabTimestampKey == getNotificationCacheTimestampKey("reversals", NoUserItem)

InitTabs ==
    /\ InitCache
    /\ userInfo = NoUserItem

TabStepped(tab, to) ==
    /\ tabs' = [tabs EXCEPT ![tab] = to]
    /\ UNCHANGED <<classifierVars, userInfo, now, written, pageVars, updateVars>>

DidRead(ret, writtenAt) ==
    [op |-> "getCachedNotificationCount", type |-> "reversals", count |-> Undefined,
     ret |-> ret, hid |-> {}, writtenAt |-> writtenAt]

\* localStorage.setItem(cacheKey, count.toString())
TabSetsValue ==
    \E tab \in Tabs, count \in CachedCounts :
        /\ tabs[tab].pc = "idle"
        /\ tabs[tab].writes < MaxWrites
        /\ localStorage' = setItem(localStorage, TabKey, toString(count))
        /\ origin' = setItem(origin, TabKey,
                             [tab |-> tab, count |-> count, at |-> now])
        /\ last' = Nothing
        /\ TabStepped(tab, [tabs[tab] EXCEPT !.pc = "setItem timestamp", !.count = count,
                                             !.writes = @ + 1])

\* localStorage.setItem(timestampKey, Date.now().toString())
TabSetsTimestamp ==
    \E tab \in Tabs :
        /\ tabs[tab].pc = "setItem timestamp"
        /\ localStorage' = setItem(localStorage, TabTimestampKey, toString(now))
        /\ origin' = setItem(origin, TabTimestampKey,
                             [tab |-> tab, count |-> tabs[tab].count, at |-> now])
        /\ last' = Did("setCachedNotificationCount", "reversals", Num(tabs[tab].count),
                       Undefined, {})
        /\ TabStepped(tab, [tabs[tab] EXCEPT !.pc = "idle"])

\* const cachedData = localStorage.getItem(cacheKey)
TabGetsValue ==
    \E tab \in Tabs :
        /\ tabs[tab].pc = "idle"
        /\ last' = Nothing
        /\ TabStepped(tab, [tabs[tab] EXCEPT
                                !.pc = "getItem timestamp",
                                !.cachedData = getItem(localStorage, TabKey),
                                !.writtenAt = IF TabKey \in DOMAIN origin
                                              THEN origin[TabKey].at ELSE 0])
        /\ UNCHANGED <<localStorage, origin>>

\* from const cachedTimestamp = localStorage.getItem(timestampKey) to the
\* return of the count or of null, or to the first removeItem
TabGetsTimestamp ==
    \E tab \in Tabs :
        LET cachedData == tabs[tab].cachedData
            cachedTimestamp == getItem(localStorage, TabTimestampKey)
            returned == [tabs[tab] EXCEPT !.pc = "idle", !.cachedData = Null,
                                          !.writtenAt = 0]
        IN  /\ tabs[tab].pc = "getItem timestamp"
            /\ IF ~Truthy(cachedData) \/ ~Truthy(cachedTimestamp)
               THEN last' = DidRead(Null, 0) /\ TabStepped(tab, returned)
               ELSE IF cacheExpired(ParseInt(cachedTimestamp.v), now)
                    THEN /\ last' = Nothing
                         /\ TabStepped(tab, [tabs[tab] EXCEPT !.pc = "removeItem"])
                    ELSE /\ last' = DidRead(ParseInt(cachedData.v), tabs[tab].writtenAt)
                         /\ TabStepped(tab, returned)
            /\ UNCHANGED <<localStorage, origin>>

\* localStorage.removeItem(cacheKey)
TabRemovesValue ==
    \E tab \in Tabs :
        /\ tabs[tab].pc = "removeItem"
        /\ localStorage' = removeItem(localStorage, TabKey)
        /\ origin' = removeItem(origin, TabKey)
        /\ last' = Nothing
        /\ TabStepped(tab, [tabs[tab] EXCEPT !.pc = "removeItem timestamp"])

\* localStorage.removeItem(timestampKey) and return null
TabRemovesTimestamp ==
    \E tab \in Tabs :
        /\ tabs[tab].pc = "removeItem timestamp"
        /\ localStorage' = removeItem(localStorage, TabTimestampKey)
        /\ origin' = removeItem(origin, TabTimestampKey)
        /\ last' = DidRead(Null, 0)
        /\ TabStepped(tab, [tabs[tab] EXCEPT !.pc = "idle", !.cachedData = Null,
                                             !.writtenAt = 0])

\* no tab is inside a call of the cache
AllTabsIdle == \A tab \in Tabs : tabs[tab].pc = "idle"

\* time passes between the calls of the cache; a call itself takes none
TimePassesBetweenCalls == AllTabsIdle /\ Tick

NextTabs ==
    \/ TabSetsValue
    \/ TabSetsTimestamp
    \/ TabGetsValue
    \/ TabGetsTimestamp
    \/ TabRemovesValue
    \/ TabRemovesTimestamp
    \/ TimePassesBetweenCalls

SpecTabs == InitTabs /\ [][NextTabs]_vars

NextRecompute ==
    \/ InitSidebar
    \/ FetchSettled
    \/ ScorecardsAnswered
    \/ RequestsAnswered
    \/ TableAnswered
    \/ Tick

SpecRecompute == InitRecompute /\ [][NextRecompute]_vars

(***************************************************************************)
(* The recomputations when the storage can throw on every call, as it does *)
(* when the page is denied access to localStorage.                         *)
(***************************************************************************)
\* the backend answers a run while the storage throws
AnsweredStorageDenied ==
    \E i \in DOMAIN runs :
        \/ /\ runs[i].pc = "scorecards"
           /\ \E answer \in ScorecardsAnswers :
                  Resumed(i, afterScorecards(ResumingStorageDenied, i, userInfo, now, answer))
        \/ /\ runs[i].pc = "requests"
           /\ \E answer \in RequestsAnswers(runs[i].tables) :
                  Resumed(i, afterRequests(ResumingStorageDenied, i, userInfo, now, answer))
        \/ /\ runs[i].pc = "tables"
           /\ \E answer \in TableAnswers(runs[i].type) :
                  Resumed(i, afterTable(ResumingStorageDenied, i, userInfo, now, answer))

NextFailures ==
    \/ InitSidebar
    \/ FetchSettled
    \/ ScorecardsAnswered
    \/ RequestsAnswered
    \/ TableAnswered
    \/ AnsweredStorageDenied
    \/ Tick

SpecFailures == InitRecompute /\ [][NextFailures]_vars

(***************************************************************************)
(* window.refreshAllNotificationCounts: the clearing, then the three       *)
(* update functions awaited one after the other.  A call that returns      *)
(* before its first await resolves at once and the next function is called *)
(* in the same task.                                                       *)
(***************************************************************************)
RefreshOrder == <<"reversals", "employeeReversals", "acknowledgments">>

RECURSIVE refreshFrom(_, _, _, _)
\* the awaits from the k-th on: u as for the update functions, pc the
\* category whose run the promise awaits, calls the functions called
refreshFrom(k, u, item, client) ==
    IF k > Len(RefreshOrder)
    THEN [u |-> u, pc |-> "resolved", calls |-> {}]
    ELSE LET called == updateCount(RefreshOrder[k], u, item, client)
             rest == refreshFrom(k + 1, called, item, client)
         IN  IF Len(called.runs) > Len(u.runs)
             THEN [u |-> called, pc |-> RefreshOrder[k], calls |-> {RefreshOrder[k]}]
             ELSE [rest EXCEPT !.calls = @ \cup {RefreshOrder[k]}]

Refreshed(chain, recomputed, failed) ==
    /\ document' = chain.u.doc
    /\ runs' = chain.u.runs
    /\ timers' = chain.u.timers
    /\ started' = [type \in NotificationTypes |->
                       IF type \in chain.calls
                       THEN Called(started[type], "refreshAllNotificationCounts", "")
                       ELSE started[type]]
    /\ refresh' = [pc |-> chain.pc, recomputed |-> recomputed, failed |-> failed]
    /\ UNCHANGED <<classifierVars, userInfo, now, page, protocol, globalSidebarLoader,
                   isLoaded, fetching, events, supabaseClient, intervals, windowTimers,
                   unloaded, tabVars>>

\* the page calls window.refreshAllNotificationCounts while no run is in flight
RefreshCalled ==
    /\ refresh.pc = "idle"
    /\ isLoaded
    /\ runs = <<>>
    /\ localStorage' = clearNotificationCache(localStorage, userInfo)
    /\ written' = IF clearThrows(userInfo) THEN written
                  ELSE {w \in written : w.email # clearedEmailOf(userInfo)}
    /\ last' = Did("refreshAllNotificationCounts", "", Undefined, Undefined, {})
    /\ Refreshed(refreshFrom(1, [doc |-> document, runs |-> runs, timers |-> timers],
                             userInfo, supabaseClient), {}, {})

IndexOf(type) == CHOOSE k \in DOMAIN RefreshOrder : RefreshOrder[k] = type

\* the run the promise awaits has ended: the next function is called
RefreshContinues ==
    /\ refresh.pc \in NotificationTypes
    /\ runs = <<>>
    /\ last.op = UpdateFunctions[refresh.pc]
    /\ UNCHANGED <<localStorage, written>>
    /\ last' = Did("refreshAllNotificationCounts", refresh.pc, Undefined, Undefined, {})
    /\ Refreshed(refreshFrom(IndexOf(refresh.pc) + 1,
                             [doc |-> document, runs |-> runs, timers |-> timers],
                             userInfo, supabaseClient),
                 IF last.outcome = "finished"
                 THEN refresh.recomputed \cup {refresh.pc} ELSE refresh.recomputed,
                 IF last.outcome = "finished"
                 THEN refresh.failed ELSE refresh.failed \cup {refresh.pc})

InitRefresh ==
    /\ InitTimers
    /\ protocol = "file:"
    /\ localStorage = <<>>

NextRefresh ==
    \/ InitSidebar
    \/ ClientInitialized
    \/ ScorecardsAnswered
    \/ RequestsAnswered
    \/ TableAnswered
    \/ RefreshCalled
    \/ RefreshContinues

SpecRefresh == InitRefresh /\ [][NextRefresh]_vars

(***************************************************************************)
(* Properties of the classifier, checked under SpecClassify.               *)
(***************************************************************************)
TrueRepresentations == {Bool(TRUE), Str(s_true), Num(1), Str(s_1)}

FalseRepresentations == {Bool(FALSE), Str(s_false), Num(0), Str(s_0)}

\* a reviewer-name field that is absent, null, empty or only white space
BlankOrAbsent(x) ==
    \/ x \in {Undefined, Null}
    \/ x.t = "string" /\ \A i \in 1..Len(x.v) : x.v[i] \in {" ", "\t", "\n", "\r"}

ApprovalRecorded(r) ==
    r.team_lead_approved \in TrueRepresentations \/ r.teamLeadApproved \in TrueRepresentations

RejectionRecorded(r) ==
    r.team_lead_approved \in FalseRepresentations \/ r.teamLeadApproved \in FalseRepresentations

ReturnedState == call.op = "getReversalWorkflowState"

ReturnedPending == call.op = "isPendingWorkflowState"

HasExplicitState == reversal.reversal_workflow_state.t = "string" /\ reversal.reversal_workflow_state.v # <<>>

\* C1 as stated: for a record whose reversal_workflow_state is set the result
\* is one of the ten labels, and it is the raw string only when the raw string
\* is one of the ten.
C1_AlwaysOneOfTenLabels ==
    (ReturnedState /\ HasExplicitState) => call.ret \in TenLabels

\* C1 amended: for a record whose reversal_workflow_state is set the result is
\* one of the ten labels or the raw state string itself, and it is one of the
\* ten labels whenever the raw state string is one of them.
C1_LabelOrRawState ==
    (ReturnedState /\ HasExplicitState) =>
        /\ call.ret \in TenLabels \cup {reversal.reversal_workflow_state}
        /\ reversal.reversal_workflow_state \in TenLabels => call.ret \in TenLabels

C1_Witness ==
    /\ ReturnedState
    /\ reversal.reversal_workflow_state = Str(s_submitted)
    /\ call.ret = Str(s_submitted)

C3_ApprovedWithoutDecisionIsPending ==
    ( /\ ReturnedPending
      /\ ApprovalRecorded(reversal)
      /\ reversal.reversal_approved \in {Null, Undefined} )
    => call.ret = Bool(TRUE)

C3_Witness ==
    /\ ReturnedPending
    /\ reversal.reversal_workflow_state = Str(s_approved)
    /\ reversal.team_lead_approved = Undefined
    /\ reversal.teamLeadApproved = Num(1)
    /\ reversal.reversal_approved = Null
    /\ call.ret = Bool(TRUE)

ReversalApprovedAnyCase ==
    {Str(s_reversal_approved), Str(in_REVERSAL_APPROVED), Str(in_Reversal_Approved)}

Unpopulated(x) == x \in {Undefined, Null}

\* C8: with no explicit state and the legacy status, in either spelling, the
\* only populated field and equal to reversal_approved in any letter case, the
\* result is approved.
C8_LegacyReversalApproved ==
    ( /\ ReturnedState
      /\ Unpopulated(reversal.reversal_workflow_state)
      /\ Unpopulated(reversal.team_lead_approved)
      /\ Unpopulated(reversal.teamLeadApproved)
      /\ Unpopulated(reversal.team_lead_reviewed_by)
      /\ Unpopulated(reversal.teamLeadReviewedBy)
      /\ Unpopulated(reversal.reversal_approved)
      /\ \/ /\ reversal.acknowledgement_status \in ReversalApprovedAnyCase
            /\ Unpopulated(reversal.acknowledgementStatus)
         \/ /\ reversal.acknowledgementStatus \in ReversalApprovedAnyCase
            /\ Unpopulated(reversal.acknowledgement_status) )
    => call.ret = Str(s_approved)

C8_Witness ==
    /\ ReturnedState
    /\ Unpopulated(reversal.reversal_workflow_state)
    /\ Unpopulated(reversal.acknowledgement_status)
    /\ reversal.acknowledgementStatus = Str(in_REVERSAL_APPROVED)
    /\ Unpopulated(reversal.team_lead_approved)
    /\ Unpopulated(reversal.teamLeadApproved)
    /\ Unpopulated(reversal.reversal_approved)
    /\ call.ret = Str(s_approved)

\* C9: with an explicit state s the rules apply in order, first match wins:
\* s is qa_review or cqc_review and no team-lead review has occurred gives
\* team_lead_review; otherwise a recorded rejection gives team_lead_rejected;
\* otherwise the result is s.
C9_ExplicitRulesInOrder ==
    (ReturnedState /\ HasExplicitState) =>
        call.ret =
            IF /\ reversal.reversal_workflow_state \in {Str(s_qa_review), Str(s_cqc_review)}
               /\ ~ApprovalRecorded(reversal)
               /\ ~RejectionRecorded(reversal)
               /\ BlankOrAbsent(reversal.team_lead_reviewed_by)
               /\ BlankOrAbsent(reversal.teamLeadReviewedBy)
            THEN Str(s_team_lead_review)
            ELSE IF RejectionRecorded(reversal)
                 THEN Str(s_team_lead_rejected)
                 ELSE reversal.reversal_workflow_state

C9_Witness ==
    /\ ReturnedState
    /\ reversal.reversal_workflow_state = Str(s_cqc_review)
    /\ reversal.team_lead_approved = Bool(TRUE)
    /\ reversal.teamLeadApproved = Str(s_0)
    /\ call.ret = Str(s_team_lead_rejected)

\* the keywords of the legacy status in priority order, with their labels
KeywordPriority ==
    << <<s_team_lead_review, s_team_lead_review>>,
       <<s_team_lead_rejected, s_team_lead_rejected>>,
       <<s_qa_review, s_qa_review>>,
       <<s_auditor_review, s_qa_review>>,
       <<s_cqc_review, s_cqc_review>>,
       <<s_cqc_sent_back, s_cqc_sent_back>>,
       <<s_agent_re_review, s_agent_re_review>>,
       <<s_reversal_approved, s_approved>>,
       <<s_reversal_rejected, s_rejected>>,
       <<s_acknowledged, s_acknowledged>> >>

LegacyText(r) ==
    ToLowerCase((IF Truthy(r.acknowledgement_status)
                 THEN r.acknowledgement_status
                 ELSE IF Truthy(r.acknowledgementStatus)
                      THEN r.acknowledgementStatus
                      ELSE Str(<<>>)).v)

\* the label of the first keyword, in priority order, that the text contains;
\* Undefined when it contains none
FirstKeywordLabel(text) ==
    LET matching == {i \in 1..Len(KeywordPriority) : Includes(text, KeywordPriority[i][1])}
    IN  IF matching = {} THEN Undefined
        ELSE Str(KeywordPriority[CHOOSE i \in matching : \A j \in matching : i <= j][2])

\* C10 as stated: with no explicit state the first keyword in priority order
\* decides, and without a keyword reversal_approved decides: null or absent
\* gives pending, every truthy value approved, every falsy non-null value
\* rejected.
C10_TruthyApprovedFalsyRejected ==
    (ReturnedState /\ ~HasExplicitState) =>
        LET label == FirstKeywordLabel(LegacyText(reversal))
        IN  call.ret =
            IF label # Undefined THEN label
            ELSE IF reversal.reversal_approved \in {Null, Undefined} THEN Str(s_pending)
            ELSE IF Truthy(reversal.reversal_approved) THEN Str(s_approved)
            ELSE Str(s_rejected)

\* C10 amended: with no explicit state the first keyword in priority order
\* decides, and without a keyword reversal_approved decides: null or absent
\* gives pending; true, 'true', 1 and '1' give approved; false, 'false', 0 and
\* '0' give rejected; every other value gives pending.
C10_KeywordOrderThenRepresentations ==
    (ReturnedState /\ ~HasExplicitState) =>
        LET label == FirstKeywordLabel(LegacyText(reversal))
        IN  call.ret =
            IF label # Undefined THEN label
            ELSE IF reversal.reversal_approved \in TrueRepresentations THEN Str(s_approved)
            ELSE IF reversal.reversal_approved \in FalseRepresentations THEN Str(s_rejected)
            ELSE Str(s_pending)

C10_Witness ==
    /\ ReturnedState
    /\ ~HasExplicitState
    /\ reversal.acknowledgement_status = Str(in_Pending)
    /\ reversal.acknowledgementStatus = Undefined
    /\ reversal.reversal_approved = Str(s_false)
    /\ call.ret = Str(s_rejected)

C10_WitnessOrder ==
    /\ ReturnedState
    /\ reversal.acknowledgement_status = Str(JoinWords(<<s_acknowledged, s_cqc_review>>))
    /\ call.ret = Str(s_cqc_review)

\* C11: the classifier never takes a record as team-lead-approved and
\* team-lead-rejected at once, whatever the two spellings hold.
C11_NeverApprovedAndRejected ==
    ReturnedState => ~(isTeamLeadApproved(reversal) /\ isTeamLeadRejected(reversal))

\* the six in-progress labels among the ten
SixInProgress ==
    {Str(s_pending), Str(s_team_lead_review), Str(s_qa_review), Str(s_cqc_review),
     Str(s_cqc_sent_back), Str(s_agent_re_review)}

\* the six and the two raw states submitted and team_lead_approved
EightInProgress ==
    SixInProgress \cup
        {Str(<<"s", "u", "b", "m", "i", "t", "t", "e", "d">>),
         Str(<<"t", "e", "a", "m", "_", "l", "e", "a", "d", "_",
               "a", "p", "p", "r", "o", "v", "e", "d">>)}

ApprovedAwaitingDecision ==
    ApprovalRecorded(reversal) /\ reversal.reversal_approved \in {Null, Undefined}

CompositePendingText ==
    LET text == LegacyText(reversal)
    IN  \/ Includes(text, <<"p", "e", "n", "d", "i", "n", "g", " ", "-", " ">> \o s_reversal_approved)
        \/ Includes(text, <<"p", "e", "n", "d", "i", "n", "g", " ", "-", " ">> \o s_reversal_rejected)

\* C12 as stated: a record is pending exactly when its classified state is one
\* of six in-progress states, or approval awaits the final decision, or the
\* legacy status holds one of the two composite texts.
C12_PendingIffSixStates ==
    ReturnedPending =>
        (call.ret = Bool(TRUE) <=>
            \/ getReversalWorkflowState(reversal) \in SixInProgress
            \/ ApprovedAwaitingDecision
            \/ CompositePendingText)

\* C12: a record is pending exactly when its classified state is one of the
\* eight states pending, submitted, team_lead_review, team_lead_approved,
\* qa_review, cqc_review, cqc_sent_back, agent_re_review, or team-lead
\* approval is recorded and reversal_approved is null or absent, or the
\* lower-cased legacy status contains 'pending - reversal_approved' or
\* 'pending - reversal_rejected'.
C12_PendingIffEightStates ==
    ReturnedPending =>
        (call.ret = Bool(TRUE) <=>
            \/ getReversalWorkflowState(reversal) \in EightInProgress
            \/ ApprovedAwaitingDecision
            \/ CompositePendingText)

\* a record classified approved with a final decision is not pending
C12_Witness ==
    /\ ReturnedPending
    /\ getReversalWorkflowState(reversal) = Str(s_approved)
    /\ ApprovalRecorded(reversal)
    /\ reversal.reversal_approved = Bool(TRUE)
    /\ call.ret = Bool(FALSE)

\* a record classified approved is pending through the composite text alone
C12_WitnessComposite ==
    /\ ReturnedPending
    /\ getReversalWorkflowState(reversal) = Str(s_approved)
    /\ ~ApprovedAwaitingDecision
    /\ CompositePendingText
    /\ call.ret = Bool(TRUE)

(***************************************************************************)
(* Properties of the notification cache, of the badges and of the          *)
(* role-gated entries.                                                     *)
(***************************************************************************)
\* the last complete writes for the category just read and the stored user
WrittenForLastRead ==
    {w \in written : w.type = last.type /\ w.email = userEmailOf(userInfo)}

\* C4: a read of a category returns the count last written for it and the
\* same user while the write is at most CACHE_DURATION_MS old, 0 included,
\* and null once it is older, whatever was written for the other categories
\* and users in between.
C4_CacheRoundTrip ==
    last.op = "getCachedNotificationCount" =>
        \A w \in WrittenForLastRead :
            last.ret = IF now - w.at <= 300000 THEN Num(w.count) ELSE Null

\* a count of 0 read back on the last millisecond of its window
C4_Witness ==
    /\ last.op = "getCachedNotificationCount"
    /\ last.ret = Num(0)
    /\ \E w \in WrittenForLastRead : w.count = 0 /\ now - w.at = 300000

\* a count read a millisecond after its window: a miss
C4_WitnessExpired ==
    /\ last.op = "getCachedNotificationCount"
    /\ last.ret = Null
    /\ \E w \in WrittenForLastRead : now - w.at = 300001

\* the two keys of the category just read, for the stored user
KeysOfLastRead ==
    {k \in DOMAIN localStorage :
        \/ k = getNotificationCacheKey(last.type, userInfo)
        \/ k = getNotificationCacheTimestampKey(last.type, userInfo)}

\* C15: after a read that returned null neither key of the category and user
\* is in storage.
C15_MissLeavesNoKey ==
    (last.op = "getCachedNotificationCount" /\ last.ret = Null) => KeysOfLastRead = {}

\* an expired entry is cleared by the read that misses it
C15_WitnessExpiredCleared ==
    /\ last.op = "getCachedNotificationCount"
    /\ last.ret = Null
    /\ KeysOfLastRead = {}
    /\ \E w \in WrittenForLastRead : now - w.at > 300000

Digits == <<"0", "1", "2", "3", "4", "5", "6", "7", "8", "9">>

\* the decimal text of a count from 1 to 99
Decimal(c) ==
    IF c < 10 THEN <<Digits[c + 1]>> ELSE <<Digits[(c \div 10) + 1], Digits[(c % 10) + 1]>>

\* the display the claim describes: hidden at 0, the decimal count up to 99,
\* "99+" from 100 on
BadgeShows(badge, c) ==
    IF c = 0 THEN badge.display = "none"
    ELSE /\ badge.display # "none"
         /\ badge.textContent = IF c >= 100 THEN <<"9", "9", "+">> ELSE Decimal(c)

BadgeSetters ==
    [setReversalBadgeCount |-> "reversalNotificationBadge",
     setEmployeeReversalBadgeCount |-> "employeeReversalNotificationBadge",
     setAcknowledgmentBadgeCount |-> "acknowledgmentNotificationBadge"]

BadgeJustSet == document[1].badges[BadgeSetters[last.op]]

StoredRole == IF HasUserInfo(userInfo) THEN getUserInfo(userInfo).role ELSE Undefined

\* C5 as stated: all three badges show the count the same way for every user.
C5_AllThreeBadgesShowCount ==
    (last.op \in DOMAIN BadgeSetters /\ document # <<>>) =>
        BadgeShows(BadgeJustSet, last.count.n)

\* C5: the reversal and acknowledgment badges are hidden at 0, show the
\* decimal count from 1 to 99 and "99+" from 100 on; the employee reversal
\* badge does the same when the stored role is Employee or no user record is
\* stored, and is hidden whatever the count for a stored user of another role.
C5_BadgeShowsCountEmployeeBadgeGated ==
    (last.op \in DOMAIN BadgeSetters /\ document # <<>>) =>
        IF /\ last.op = "setEmployeeReversalBadgeCount"
           /\ HasUserInfo(userInfo)
           /\ StoredRole # Str(<<"E", "m", "p", "l", "o", "y", "e", "e">>)
        THEN BadgeJustSet.display = "none"
        ELSE BadgeShows(BadgeJustSet, last.count.n)

\* an Employee's badge set to 100 shows "99+"
C5_Witness ==
    /\ last.op = "setEmployeeReversalBadgeCount"
    /\ last.count = Num(100)
    /\ document # <<>>
    /\ BadgeJustSet = [display |-> "inline-flex", textContent |-> <<"9", "9", "+">>]

\* the employee badge of an analyst set to 1 stays hidden
C5_WitnessGated ==
    /\ last.op = "setEmployeeReversalBadgeCount"
    /\ last.count = Num(1)
    /\ document # <<>>
    /\ HasUserInfo(userInfo)
    /\ BadgeJustSet.display = "none"

\* a reversal badge set to 99 shows "99"
C5_WitnessDecimal ==
    /\ last.op = "setReversalBadgeCount"
    /\ last.count = Num(99)
    /\ document # <<>>
    /\ BadgeJustSet = [display |-> "inline-flex", textContent |-> <<"9", "9">>]

RoleIsEmployee == StoredRole = Str(<<"E", "m", "p", "l", "o", "y", "e", "e">>)

RoleIsSuperAdmin ==
    StoredRole = Str(<<"S", "u", "p", "e", "r", " ", "A", "d", "m", "i", "n">>)

FiveEntries ==
    {"Auditor's Dashboard", "Create New Audit", "Audit Distribution", "Improvement Corner",
     "Search"}

SevenEntries == FiveEntries \cup {"scorecards.html", "user-management.html"}

\* the entries an Employee's sidebar has hidden, the Access Control entry aside
HiddenEntries ==
    {e \in MenuEntries \ {"accessControlMenuItem"} : document[1].menu[e] = "none"}

\* C6 as stated: an Employee has exactly five entries hidden.
C6_EmployeeHidesExactlyFive ==
    (last.op = "hideEmployeeMenuItems" /\ document # <<>>) =>
        IF RoleIsEmployee
        THEN Cardinality(HiddenEntries) = 5 /\ "profile.html" \notin HiddenEntries
        ELSE last.hid = {}

\* C6: for the role Employee the call leaves hidden exactly seven entries, the
\* five top-level ones and the Scorecards and User Management entries of the
\* Settings submenu, hides nothing else but the Access Control entry, and
\* never hides Profile; for any other role, and without a user record, it
\* hides nothing.
C6_EmployeeHidesSeven ==
    (last.op = "hideEmployeeMenuItems" /\ document # <<>>) =>
        IF RoleIsEmployee
        THEN /\ HiddenEntries = SevenEntries
             /\ last.hid \subseteq SevenEntries \cup {"accessControlMenuItem"}
             /\ "profile.html" \notin HiddenEntries
        ELSE last.hid = {}

\* an Employee signs in on a loaded sidebar and the call hides the seven
C6_Witness ==
    /\ last.op = "hideEmployeeMenuItems"
    /\ document # <<>>
    /\ RoleIsEmployee
    /\ last.hid = SevenEntries

\* the call for an analyst hides nothing
C6_WitnessOtherRole ==
    /\ last.op = "hideEmployeeMenuItems"
    /\ document # <<>>
    /\ HasUserInfo(userInfo)
    /\ ~RoleIsEmployee
    /\ last.hid = {}

\* the Access Control entry is shown exactly to a stored Super Admin
AccessControlAgrees ==
    document # <<>> =>
        (document[1].menu["accessControlMenuItem"] # "none" <=> RoleIsSuperAdmin)

\* C7: after updateAccessControlMenuItem, and after the load of the sidebar,
\* the Access Control entry is visible exactly when the stored role is
\* "Super Admin", and a call of hideEmployeeMenuItems keeps it so.
C7_AccessControlOnlySuperAdmin ==
    /\ [](last.op \in {"updateAccessControlMenuItem", "loadSidebar"} => AccessControlAgrees)
    /\ [][(last'.op = "hideEmployeeMenuItems" /\ AccessControlAgrees) => AccessControlAgrees']_vars

\* the entry is shown to a Super Admin after the update
C7_Witness ==
    /\ last.op = "updateAccessControlMenuItem"
    /\ document # <<>>
    /\ RoleIsSuperAdmin
    /\ document[1].menu["accessControlMenuItem"] = "block"

\* the entry is hidden from the role "Super Admin " after the update
C7_WitnessNearMiss ==
    /\ last.op = "updateAccessControlMenuItem"
    /\ document # <<>>
    /\ StoredRole = Str(in_Super_Admin_padded)
    /\ document[1].menu["accessControlMenuItem"] = "none"

(***************************************************************************)
(* Properties of the recomputations, checked under SpecRecompute.          *)
(***************************************************************************)
\* a run of an update function has just ended
RunEnded == last.op \in {UpdateFunctions[type] : type \in NotificationTypes}

\* a backend call of the run that just ended returned an error or threw
RunFailed ==
    /\ RunEnded
    /\ \/ last.outcome \in {"scorecards error", "thrown"}
       \/ last.answers.failed
       \/ last.answers.skipped # {}

KeysOfLastRun ==
    {getNotificationCacheKey(last.type, userInfo),
     getNotificationCacheTimestampKey(last.type, userInfo)}

\* the cache holds the count of the run that just ended, written now
CacheHoldsLastCount ==
    /\ KeysOfLastRun \subseteq DOMAIN localStorage
    /\ localStorage[getNotificationCacheKey(last.type, userInfo)] = Decimal(last.count.n)
    /\ ParseInt(localStorage[getNotificationCacheTimestampKey(last.type, userInfo)]) = Num(now)

C13_WitnessFreshKept ==
    /\ RunEnded
    /\ last.outcome = "thrown"
    /\ last.ret # Null
    /\ now > 0
    /\ KeysOfLastRun \subseteq DOMAIN localStorage

\* a run whose scorecards query returns an error leaves an old entry alone
C13_WitnessScorecardsError ==
    /\ RunEnded
    /\ last.outcome = "scorecards error"
    /\ now > 300000
    /\ KeysOfLastRun \subseteq DOMAIN localStorage

\* a run in which a table failed overwrites the entry
C13_WitnessOverwritten ==
    /\ RunEnded
    /\ last.outcome = "finished"
    /\ last.answers.failed
    /\ KeysOfLastRun \subseteq last.changed

BadgeOf ==
    [reversals |-> "reversalNotificationBadge",
     employeeReversals |-> "employeeReversalNotificationBadge",
     acknowledgments |-> "acknowledgmentNotificationBadge"]

BadgeOfLastRun == document[1].badges[BadgeOf[last.type]]

\* the count a read of the category returns now, 0 when it returns null
CachedOrZero ==
    LET read == getCachedNotificationCount(localStorage, userInfo, now, last.type).ret
    IN  IF read = Null THEN 0 ELSE read.n

C14_WitnessCachedShown ==
    /\ RunEnded
    /\ last.outcome = "thrown"
    /\ last.ret = Num(7)
    /\ BadgeOfLastRun.textContent = <<"7">>

\* a run that throws after the entry has expired hides the badge
C14_WitnessNothingCached ==
    /\ RunEnded
    /\ last.outcome = "thrown"
    /\ last.ret = Null
    /\ now > 300000
    /\ BadgeOfLastRun.display = "none"

\* a scorecards error leaves a badge showing a count that is no longer cached
C14_WitnessBadgeKept ==
    /\ RunEnded
    /\ last.outcome = "scorecards error"
    /\ BadgeOfLastRun.display # "none"
    /\ CachedOrZero = 0

\* C20: in updatePendingAcknowledgmentsCount a table whose query fails for a
\* missing column, the error returned or thrown, adds nothing to the total;
\* the run goes on to the tables that are left, and it ends by writing the
\* rows of the tables that answered to the cache and to the badge.
C20_SchemaMismatchSkipsTable ==
    /\ \A i \in DOMAIN runs :
           runs[i].answers.skipped # {} =>
               /\ runs[i].pc = "tables"
               /\ runs[i].tables >= 1
               /\ runs[i].total = runs[i].answers.rows
    /\ (RunEnded /\ last.answers.skipped # {}) =>
           /\ last.type = "acknowledgments"
           /\ last.outcome = "finished"
           /\ last.count = Num(last.answers.rows)
           /\ CacheHoldsLastCount
           /\ BadgeShows(BadgeOfLastRun, last.answers.rows)

\* a run that skipped a table for a returned and one for a thrown error
C20_WitnessBothSkipped ==
    /\ RunEnded
    /\ last.answers.skipped = {"schema error", "schema thrown"}
    /\ last.outcome = "finished"
    /\ last.count = Num(0)

\* a run that skipped a table and counted the other one
C20_Witness ==
    /\ RunEnded
    /\ last.answers.skipped = {"schema thrown"}
    /\ ~last.answers.failed
    /\ last.count = Num(1)
    /\ BadgeOfLastRun.textContent = <<"1">>

\* a run that has skipped its first table awaits the second one
C20_WitnessGoesOn ==
    \E i \in DOMAIN runs :
        /\ runs[i].answers.skipped = {"schema error"}
        /\ runs[i].answers.rows = 0
        /\ runs[i].tables = 1

(***************************************************************************)
(* Properties of the timers, checked under SpecTimers.                     *)
(***************************************************************************)
\* the calls of an update function that no retry made
Triggers(type) == started[type].calls - started[type].retries

RunsOf(type) == Cardinality({i \in DOMAIN runs : runs[i].type = type})

\* the role of the stored user lets a call of the function reach the test
\* of window.supabaseClient
ReachesClientTest(type) ==
    CASE type = "reversals" -> ~RoleIsEmployee
      [] type = "employeeReversals" -> RoleIsEmployee
      [] type = "acknowledgments" -> TRUE

\* C16 as stated: the retries of a category are never more than the calls
\* that were no retries, one retry per trigger at most.
C16_OneRetryPerTrigger ==
    \A type \in NotificationTypes : started[type].retries <= Triggers(type)

\* C16: while window.supabaseClient is missing every trigger of a category
\* keeps one retry of that category pending, however many retries have
\* already come due; once it is set each trigger has either its retry still
\* pending or its run started, and only the retries of a category call its
\* update function.
C16_RetriedUntilClientIsSet ==
    \A type \in NotificationTypes :
        /\ ~supabaseClient => RunsOf(type) = 0
        /\ timers[type] + RunsOf(type)
               = IF ReachesClientTest(type) THEN Triggers(type) ELSE 0
        /\ \A by \in started[type].by : by.by = "setTimeout" => by.handle = type

\* the second retry of a category found the client missing and armed a third
C16_Witness ==
    /\ ~supabaseClient
    /\ last.op = "setTimeout"
    /\ started[last.type].retries = 2
    /\ Triggers(last.type) = 1
    /\ timers[last.type] = 1

\* a retry found the client and started the run
C16_WitnessRunStarted ==
    /\ supabaseClient
    /\ last.op = "setTimeout"
    /\ RunsOf(last.type) = 1
    /\ timers[last.type] = 0

\* C17: once the beforeunload listener has run the three handles are null
\* and no timer, interval or retry, calls an update function.
C17_NothingScheduledAfterUnload ==
    unloaded =>
        /\ \A handle \in NotificationTypes : intervals[handle] = 0
        /\ last.op \notin {"setInterval", "setTimeout"}

\* C19: the load paints each badge from the cache, the reversal badge of an
\* Employee being hidden by the call that follows and the employee badge of
\* a stored user of another role staying hidden, calls each update
\* function once, none of the runs having an answer yet, and sets the three
\* intervals to UPDATE_INTERVAL_MS; the interval of a handle calls the
\* update function of its own category and no other.
C19_CacheFirstThenOwnTimers ==
    /\ last.op = "loadSidebar" =>
           /\ \A type \in NotificationTypes :
                  /\ started[type] = Called(NeverCalled, "load", "")
                  /\ \E timer \in windowTimers.active :
                         /\ timer.id = intervals[type]
                         /\ timer.handle = type
                         /\ timer.every = 300000
                  /\ BadgeShows(document[1].badges[BadgeOf[type]],
                                IF \/ type = "reversals" /\ RoleIsEmployee
                                   \/ /\ type = "employeeReversals"
                                      /\ HasUserInfo(userInfo) /\ ~RoleIsEmployee
                                THEN 0
                                ELSE IF getNotificationCacheKey(type, userInfo)
                                            \in DOMAIN localStorage
                                     THEN ParseInt(localStorage[
                                              getNotificationCacheKey(type, userInfo)]).n
                                     ELSE 0)
           /\ \A i \in DOMAIN runs : runs[i].pc = "scorecards"
    /\ \A type \in NotificationTypes :
           \A by \in started[type].by : by.by = "setInterval" => by.handle = type

\* the load has painted the cached counts of a user who reviews reversals
C19_Witness ==
    /\ last.op = "loadSidebar"
    /\ document[1].badges["reversalNotificationBadge"].textContent = <<"7">>
    /\ document[1].badges["acknowledgmentNotificationBadge"].display = "none"
    /\ RunsOf("reversals") = 1

\* the interval of the acknowledgments has elapsed twice, the others not
C19_WitnessOwnTimer ==
    /\ last.op = "setInterval"
    /\ last.type = "acknowledgments"
    /\ started["acknowledgments"].calls = 3
    /\ started["reversals"].calls = 1
    /\ started["employeeReversals"].calls = 1

(***************************************************************************)
(* Properties of the shared cache, checked under SpecTabs.                 *)
(***************************************************************************)
\* the stored count is the count of the write that stored the timestamp,
\* which is the write that ended last
LastWriteStored ==
    {TabKey, TabTimestampKey} \subseteq DOMAIN localStorage =>
        localStorage[TabKey] = toString(origin[TabTimestampKey].count)

\* the count a read returned was stored at most CACHE_DURATION_MS before,
\* by the write the read took it from or by the one that has replaced it
ReadIsFresh ==
    (last.op = "getCachedNotificationCount" /\ last.ret # Null) =>
        \/ now - last.writtenAt <= 300000
        \/ /\ TabKey \in DOMAIN localStorage
           /\ localStorage[TabKey] = toString(last.ret.n)
           /\ now - origin[TabKey].at <= 300000

\* C18: whenever no tab is inside a call of the cache, the stored count and
\* the stored timestamp are those of one write, the one that wrote last; and
\* a read never returns a count stored more than CACHE_DURATION_MS before it.
C18_LastWriteWinsAndReadsFresh ==
    /\ AllTabsIdle => LastWriteStored
    /\ ReadIsFresh

(***************************************************************************)
(* More properties of the classifier, checked under SpecClassify.          *)
(***************************************************************************)
\* isPendingWorkflowState without its last if statement
PendingWithoutLastCheck ==
    LET finalDecision == reversal.reversal_approved
    IN  \/ getReversalWorkflowState(reversal) \in pendingStates
        \/ isTeamLeadApproved(reversal) /\ finalDecision = Null
        \/ isTeamLeadApproved(reversal) /\ finalDecision = Undefined
        \/ Includes(ackStatusOf(reversal), s_pending_reversal_approved)
        \/ Includes(ackStatusOf(reversal), s_pending_reversal_rejected)

\* C23: for every record isPendingWorkflowState returns what it would return
\* without its last check of qa_review and cqc_review.
C23_LastCheckIsRedundant ==
    call.op = "isPendingWorkflowState" => call.ret = Bool(PendingWithoutLastCheck)

\* a record in qa_review that nothing but its state makes pending
C23_Witness ==
    /\ call.op = "isPendingWorkflowState"
    /\ call.ret = Bool(TRUE)
    /\ getReversalWorkflowState(reversal) = Str(<<"q", "a", "_", "r", "e", "v", "i", "e", "w">>)
    /\ ~isTeamLeadApproved(reversal)
    /\ ~Includes(ackStatusOf(reversal), <<"p", "e", "n", "d", "i", "n", "g", " ", "-">>)

(***************************************************************************)
(* Properties of the keys, checked under SpecKeys.                         *)
(***************************************************************************)
\* the two keys of a category and a normalised address
KeysOfPair(type, email) ==
    {getNotificationCacheKey(type, UserObject(Str(email), Undefined)),
     getNotificationCacheTimestampKey(type, UserObject(Str(email), Undefined))}

\* a read of a category returns the count last written for it and the
\* stored user while that write is within its window
ReadReturnsOwnWrite ==
    last.op = "getCachedNotificationCount" =>
        \A w \in WrittenForLastRead : now - w.at <= 300000 => last.ret = Num(w.count)

\* C27: the keys of two different pairs of category and normalised address
\* that have been written are disjoint, and a read returns what was last
\* written for its own pair whatever was written for the others.
C27_KeysOfDistinctPairsDisjoint ==
    /\ \A v \in written, w \in written :
           (v.type # w.type \/ v.email # w.email) =>
               KeysOfPair(v.type, v.email) \cap KeysOfPair(w.type, w.email) = {}
    /\ ReadReturnsOwnWrite

(***************************************************************************)
(* Properties of the handles, checked under SpecIntervals.                 *)
(***************************************************************************)
TimersOf(handle) == {timer \in windowTimers.active : timer.handle = handle}

\* C29: at most one interval timer is armed for each category, and the
\* handle of a category is non-null exactly when that timer is armed, the
\* handle being its id.
C29_OneTimerPerHandle ==
    \A handle \in NotificationTypes :
        /\ Cardinality(TimersOf(handle)) <= 1
        /\ intervals[handle] # 0 <=> TimersOf(handle) # {}
        /\ \A timer \in TimersOf(handle) : timer.id = intervals[handle]

\* setupNotificationUpdateIntervals has run while the handles were set
C29_Witness ==
    /\ last.op = "setupNotificationUpdateIntervals"
    /\ windowTimers.issued >= 6
    /\ \A handle \in NotificationTypes : Cardinality(TimersOf(handle)) = 1

\* clearNotificationUpdateIntervals has run while the handles were set
C29_WitnessCleared ==
    /\ last.op = "clearNotificationUpdateIntervals"
    /\ windowTimers.issued >= 3
    /\ windowTimers.active = {}

(***************************************************************************)
(* Properties of the page load, checked under SpecLoads.                   *)
(***************************************************************************)
\* C30: the page holds at most one sidebar and at most one sidebarLoaded
\* event has been dispatched, whatever calls of loadSidebar were made and
\* however their fetches settled; under the file: protocol every event
\* reports usingFallback.
C30_SidebarInsertedOnce ==
    /\ Len(document) <= 1
    /\ Len(events) <= 1
    /\ protocol = "file:" => \A i \in DOMAIN events : events[i]

(***************************************************************************)
(* Properties of the badges and the role, checked under SpecRecompute.     *)
(***************************************************************************)
\* C25: once the page has loaded and called the update functions, the
\* employee badge is shown only when the stored user is an Employee, and
\* for an Employee the reversal badge is hidden, no run of the category
\* reversals is in flight and no count of it has been written.
C25_BadgesScopedByRole ==
    isLoaded =>
        /\ document[1].badges["employeeReversalNotificationBadge"].display # "none" =>
               HasUserInfo(userInfo) /\ RoleIsEmployee
        /\ RoleIsEmployee =>
               /\ document[1].badges["reversalNotificationBadge"].display = "none"
               /\ RunsOf("reversals") = 0
               /\ \A w \in written : w.type # "reversals"

\* the half of C25 about a stored user
C25_StoredUserPart ==
    isLoaded /\ HasUserInfo(userInfo) => C25_BadgesScopedByRole

(***************************************************************************)
(* Properties of the clearing, checked under SpecClear and                 *)
(* SpecClearFaults.                                                        *)
(***************************************************************************)
ReadMisses(type) == getCachedNotificationCount(localStorage, userInfo, now, type).ret = Null

KeysOfCurrentUser ==
    UNION {{getNotificationCacheKey(type, userInfo),
            getNotificationCacheTimestampKey(type, userInfo)} : type \in NotificationTypes}

\* C22: right after the clearing no key the cache functions use for the
\* stored user is left in the storage, and a read of each of the three
\* categories misses, whatever the item userInfo holds.
C22_ClearingEmptiesTheUsersCache ==
    last.op = "clearNotificationCache" =>
        /\ KeysOfCurrentUser \cap DOMAIN localStorage = {}
        /\ \A type \in NotificationTypes : ReadMisses(type)

\* the same for the items JSON.parse reads as an object, and a missing item
C22_ParsedUserPart ==
    (last.op = "clearNotificationCache" /\ ~clearThrows(userInfo)) =>
        /\ KeysOfCurrentUser \cap DOMAIN localStorage = {}
        /\ \A type \in NotificationTypes : ReadMisses(type)

\* C28: the value key of a category and user is stored exactly when its
\* timestamp key is.
C28_ValueAndTimestampTogether ==
    \A type \in NotificationTypes :
        getNotificationCacheKey(type, userInfo) \in DOMAIN localStorage
            <=> getNotificationCacheTimestampKey(type, userInfo) \in DOMAIN localStorage

(***************************************************************************)
(* Properties of the refresh, checked under SpecRefresh.                   *)
(***************************************************************************)
\* the categories the role of the stored user has recomputed
CategoriesOfRole == {type \in NotificationTypes : ReachesClientTest(type)}

\* C24: when the promise of refreshAllNotificationCounts has resolved, each
\* category the role of the stored user has recomputed has been counted
\* from the backend and written to the cache, unless its run failed.
C24_ResolvedMeansRecomputed ==
    refresh.pc = "resolved" =>
        \A type \in CategoriesOfRole :
            \/ type \in refresh.failed
            \/ /\ type \in refresh.recomputed
               /\ \E w \in written : w.type = type /\ w.email = userEmailOf(userInfo)

\* the same when window.supabaseClient was set at the call
C24_ClientSetPart ==
    (refresh.pc = "resolved" /\ \A type \in NotificationTypes : timers[type] = 0) =>
        C24_ResolvedMeansRecomputed

(***************************************************************************)
(* Properties of the pending count, checked under SpecPending.             *)
(***************************************************************************)
Counted == call.ret

\* no counted reversal was merged with a request whose current state is final
FinalRequestsNotCounted ==
    \A entry \in Counted :
        entry.request # 0 => backend.requests[entry.request].current \notin finalStates

\* a request without a current state is counted as submitted when it is the
\* last request of its audit and the audit row was returned
StatelessRequestsCounted ==
    \A i \in DOMAIN backend.requests :
        LET request == backend.requests[i]
        IN  (/\ request.current = <<>>
             /\ \A j \in DOMAIN backend.requests :
                    backend.requests[j].audit_id = request.audit_id => j <= i
             /\ ~backend.auditsFail
             /\ backend.audits[request.table][request.audit_id] # "absent") =>
                \E entry \in Counted :
                    /\ entry.request = i
                    /\ entry.row.reversal_workflow_state = Str(s_submitted)

\* no audit of a table is counted twice
NoAuditCountedTwice ==
    \A e1 \in Counted, e2 \in Counted : (e1.id = e2.id /\ e1.table = e2.table) => e1 = e2

\* C26: a request whose current workflow state is approved, rejected or
\* acknowledged gives no counted reversal, a request without a current
\* state is counted as submitted, and no audit is counted twice.
C26_PendingCount ==
    call.op = "updatePendingReversalsCount" =>
        /\ FinalRequestsNotCounted
        /\ StatelessRequestsCounted
        /\ NoAuditCountedTwice

\* the same when the query of reversal_workflow_states answers without error
C26_StatesAnsweredPart ==
    (call.op = "updatePendingReversalsCount" /\ ~backend.statesFail) => C26_PendingCount

C26_NoAuditCountedTwicePart ==
    call.op = "updatePendingReversalsCount" => NoAuditCountedTwice

(***************************************************************************)
(* Properties of the failures, checked under SpecFailures.                 *)
(***************************************************************************)
\* the run that just ended met a failure of the backend or of the storage
MetFailure ==
    \/ RunFailed
    \/ last.denied /\ last.outcome \in {"finished", "thrown"}
    \/ last.outcome = "uncaught"

\* the failures that end a run or break a call of the cache are logged
EndingFailuresLogged ==
    /\ last.outcome = "thrown" => "console.error" \in last.logs
    /\ last.outcome = "scorecards error" => "console.warn" \in last.logs
    /\ (last.denied /\ last.outcome = "thrown") => "cache read error" \in last.logs
    /\ (last.denied /\ last.outcome = "finished") => "cache write error" \in last.logs

\* the badge of the run holds the count the run ended with
BadgeHoldsOutcome ==
    document # <<>> =>
        /\ last.outcome = "thrown" =>
               BadgeShows(BadgeOfLastRun, IF last.ret = Null THEN 0 ELSE last.ret.n)
        /\ last.outcome = "finished" => BadgeShows(BadgeOfLastRun, last.count.n)
        /\ last.outcome = "scorecards error" => last.changed = {}

C21_WitnessNotCached ==
    /\ RunEnded
    /\ last.denied
    /\ last.outcome = "finished"
    /\ last.count = Num(1)
    /\ BadgeOfLastRun.display # "none"
    /\ KeysOfLastRun \cap DOMAIN localStorage = {}

\* a run finished after a failure that was passed without a message
C21_WitnessSilent ==
    /\ RunEnded
    /\ last.outcome = "finished"
    /\ last.answers.silent
    /\ last.logs = {}

====
